---- MODULE Spec2Model ----
(***************************************************************************)
(* Multi-source crypto price aggregation: the CryptoPriceChecker           *)
(* aggregator, the exchange adapters it fans out to, and the MCP tool      *)
(* handlers (stdio and HTTP) with their result formatters.                 *)
(***************************************************************************)
EXTENDS Integers, Sequences, FiniteSets, TLC

(***************************************************************************)
(* Bounds of the model.                                                    *)
(***************************************************************************)
\* At most this many adapter invocations of one get_crypto_price call do
\* anything else than return a declared Failure (they succeed, or raise).
MaxActive == 2
\* The same, for one get_multiple_crypto_prices call.
MaxActiveMulti == 1
\* Longest symbols list handed to get_multiple_crypto_prices.
MaxSymbols == 2

(***************************************************************************)
(* JavaScript values.  undefined, null, strings, arrays and numbers are    *)
(* tagged records; a number is NaN or an exact rational num/den.           *)
(***************************************************************************)
Undef == [t |-> "undefined"]
JNull == [t |-> "null"]
Str(s) == [t |-> "string", s |-> s]
Arr(items) == [t |-> "array", items |-> items]
NaN == [t |-> "number", nan |-> TRUE, num |-> 0, den |-> 1]
\* Infinity and -Infinity are 1/0 and -1/0
Infinity == [t |-> "number", nan |-> FALSE, num |-> 1, den |-> 0]
NegInfinity == [t |-> "number", nan |-> FALSE, num |-> -1, den |-> 0]
Obj(fields) == [t |-> "object", fields |-> fields]
EmptyFields == [k \in {} |-> Undef]

RECURSIVE GCD(_, _)
GCD(a, b) == IF b = 0 THEN a ELSE GCD(b, a % b)

Abs(n) == IF n < 0 THEN -n ELSE n

\* the rational n/d (d > 0) in lowest terms
Rat(n, d) ==
    LET g == GCD(Abs(n), d)
    IN  [t |-> "number", nan |-> FALSE, num |-> n \div g, den |-> d \div g]

Num(n) == Rat(n, 1)

IsNumber(v) == v.t = "number"
IsString(v) == v.t = "string"
IsArray(v) == v.t = "array"

IsObject(v) == v.t = "object"
Nullish(v) == v.t \in {"undefined", "null"}

\* a + b on JavaScript numbers
NumAdd(a, b) ==
    IF a.nan \/ b.nan THEN NaN
    ELSE IF a.den = 0 /\ b.den = 0 THEN (IF a = b THEN a ELSE NaN)
    ELSE IF a.den = 0 THEN a
    ELSE IF b.den = 0 THEN b
    ELSE Rat(a.num * b.den + b.num * a.den, a.den * b.den)

\* a * b on JavaScript numbers
NumMul(a, b) ==
    IF a.nan \/ b.nan THEN NaN
    ELSE IF a.den = 0 \/ b.den = 0
    THEN (IF a.num * b.num = 0 THEN NaN
          ELSE IF a.num * b.num > 0 THEN Infinity ELSE NegInfinity)
    ELSE Rat(a.num * b.num, a.den * b.den)

\* 1 / a on JavaScript numbers (the sign of a zero is not kept: 1 / 0 is
\* Infinity)
NumInverse(a) ==
    IF a.nan THEN NaN
    ELSE IF a.den = 0 THEN Num(0)
    ELSE IF a.num = 0 THEN Infinity
    ELSE IF a.num > 0 THEN Rat(a.den, a.num)
    ELSE Rat(-a.den, -a.num)

\* a / b on JavaScript numbers
NumDiv(a, b) ==
    IF a.nan \/ b.nan THEN NaN
    ELSE IF a.den = 0 /\ b.den = 0 THEN NaN
    ELSE IF a.num = 0 /\ b.num = 0 THEN NaN
    ELSE NumMul(a, NumInverse(b))

\* a / n for a positive integer n
NumDivInt(a, n) ==
    IF a.nan THEN NaN
    ELSE IF a.den = 0 THEN a
    ELSE Rat(a.num, a.den * n)

\* a <= b on JavaScript numbers: false as soon as one side is NaN
NumLeq(a, b) ==
    /\ ~a.nan
    /\ ~b.nan
    /\ IF a.den = 0 \/ b.den = 0
       THEN a = b \/ a = NegInfinity \/ b = Infinity
       ELSE a.num * b.den <= b.num * a.den

\* obj[key] on a value that is neither null nor undefined
Get(obj, key) ==
    IF IsObject(obj) /\ key \in DOMAIN obj.fields THEN obj.fields[key]
    ELSE Undef

\* arr[index] (index from 0)
At(arr, index) ==
    IF IsArray(arr) /\ index + 1 <= Len(arr.items) THEN arr.items[index + 1]
    ELSE Undef

\* the message of the TypeError of reading a property of null or undefined
CannotRead(value, key) ==
    "Cannot read properties of " \o value.t \o " (reading '" \o key \o "')"

\* the numbers the numeric strings of the model denote
NumberTable ==
    ("42000.5" :> Rat(84001, 2)) @@ ("2000" :> Num(2000)) @@
    ("3" :> Num(3)) @@ ("1" :> Num(1)) @@ ("0" :> Num(0)) @@
    ("-5" :> Num(0 - 5))

\* parseFloat(value)
ParseFloat(value) ==
    IF IsNumber(value) THEN value
    ELSE IF IsString(value) /\ value.s \in DOMAIN NumberTable
    THEN NumberTable[value.s]
    ELSE NaN

\* Number(value)
ToNumber(value) ==
    IF IsNumber(value) THEN value
    ELSE IF value.t = "null" THEN Num(0)
    ELSE IF IsString(value) /\ value.s = "" THEN Num(0)
    ELSE IF IsString(value) /\ value.s \in DOMAIN NumberTable
    THEN NumberTable[value.s]
    ELSE NaN

\* ToBoolean
Truthy(v) ==
    CASE v.t = "undefined" -> FALSE
      [] v.t = "null" -> FALSE
      [] v.t = "number" -> ~v.nan /\ v.num # 0
      [] v.t = "string" -> v.s # ""
      [] OTHER -> TRUE

\* String.prototype.toUpperCase / toLowerCase on the strings of the model
UpperTable == [btc |-> "BTC", eth |-> "ETH", sol |-> "SOL", usdc |-> "USDC"]
ToUpperCase(s) == IF s \in DOMAIN UpperTable THEN UpperTable[s] ELSE s

LowerTable ==
    [Binance |-> "binance", OKX |-> "okx", Coinbase |-> "coinbase",
     Kraken |-> "kraken", Hyperliquid |-> "hyperliquid", Uniswap |-> "uniswap",
     Jupiter |-> "jupiter", PancakeSwap |-> "pancakeswap", Curve |-> "curve",
     BTC |-> "btc", ETH |-> "eth", SOL |-> "sol"]
    @@ ("0xA0b86991c6218b36c1d19D4a2e9Eb0cE3606eB48"
            :> "0xa0b86991c6218b36c1d19d4a2e9eb0ce3606eb48")
    @@ ("0xToken" :> "0xtoken")
    @@ ("0x Swap" :> "0x swap")
    @@ ("OKX DEX" :> "okx dex")
    @@ ("0xOther" :> "0xother")
    @@ ("0xThird" :> "0xthird")
    @@ ("0xC02aaA39b223FE8D0A0e5C4F27eAD9083C756Cc2"
            :> "0xc02aaa39b223fe8d0a0e5c4f27ead9083c756cc2")
    @@ ("0x2791Bca1f2de4661ED88A30C99A7a9449Aa84174"
            :> "0x2791bca1f2de4661ed88a30c99a7a9449aa84174")
    @@ ("0x8AC76a51cc950d9822D68b83fE1Ad97B32Cd580d"
            :> "0x8ac76a51cc950d9822d68b83fe1ad97b32cd580d")
ToLowerCase(s) == IF s \in DOMAIN LowerTable THEN LowerTable[s] ELSE s

(***************************************************************************)
(* ExchangeResult and PriceData (types.ts).                                *)
(***************************************************************************)
PriceData(price) == [t |-> "object", price |-> price]

SuccessResult(exchange, price) ==
    [exchange |-> exchange, success |-> TRUE, data |-> PriceData(price),
     error |-> Undef]

FailureResult(exchange, message) ==
    [exchange |-> exchange, success |-> FALSE, data |-> Undef,
     error |-> Str(message)]

(***************************************************************************)
(* The aggregator's configuration (CryptoPriceChecker).                    *)
(***************************************************************************)
exchangeNames ==
    << "binance", "okx", "coinbase", "kraken",
       "hyperliquid", "uniswap", "0x", "jupiter",
       "okx-dex", "1inch", "pancakeswap", "curve" >>

NumExchanges == Len(exchangeNames)

\* the keys of this.exchanges after the constructor, in insertion order
exchanges ==
    << "binance", "okx", "coinbase", "kraken",
       "hyperliquid", "uniswap", "0x", "jupiter",
       "okx-dex", "1inch", "pancakeswap", "curve" >>

RegistryHas(name) == \E k \in 1..Len(exchanges) : exchanges[k] = name

DefaultChainId == 1
JupiterChainId == 101
PancakeSwapChainId == 56

\* the name OKXDEXExchange gives itself (its source is not in the
\* repository's files; the name is the registry key spelled as a title)
OkxDexName == "OKX DEX"

\* the value each adapter puts in the exchange field of what it returns
AdapterName ==
    [e \in {exchangeNames[k] : k \in 1..NumExchanges} |->
        CASE e = "binance" -> "Binance"
          [] e = "okx" -> "OKX"
          [] e = "coinbase" -> "Coinbase"
          [] e = "kraken" -> "Kraken"
          [] e = "hyperliquid" -> "Hyperliquid"
          [] e = "uniswap" -> "Uniswap"
          [] e = "0x" -> "0x"
          [] e = "jupiter" -> "Jupiter"
          [] e = "okx-dex" -> OkxDexName
          [] e = "1inch" -> "1inch"
          [] e = "pancakeswap" -> "PancakeSwap"
          [] e = "curve" -> "Curve"]

\* the chain id argument getCryptoPrice passes to an adapter (Undef: none)
ChainArgument(exchangeName, chainId, thisChainId) ==
    IF exchangeName \in {"uniswap", "0x", "okx-dex", "1inch", "curve"}
    THEN (IF Truthy(chainId) THEN chainId ELSE thisChainId)
    ELSE IF exchangeName = "jupiter" THEN Num(JupiterChainId)
    ELSE IF exchangeName = "pancakeswap" THEN Num(PancakeSwapChainId)
    ELSE Undef

(***************************************************************************)
(* What one adapter invocation does, seen from the aggregator: getPrice    *)
(* returns an ExchangeResult, or raises.                                   *)
(***************************************************************************)
NotCalled == [kind |-> "none"]

\* the TypeError of symbol.toUpperCase() when symbol is null
NullSymbolMessage == "Cannot read properties of null (reading 'toUpperCase')"

Returned(value) == [kind |-> "return", value |-> value]
Threw(message) == [kind |-> "throw", message |-> message]

\* error.message || fallback
MessageOr(message, fallback) == IF message # "" THEN message ELSE fallback

\* variant: the catch block does not name the exchange it was calling
WrapExchangeCallUnnamed(exchangeName, did) ==
    IF ~RegistryHas(exchangeName)
    THEN [status |-> "fulfilled", reason |-> "",
          value |-> FailureResult(exchangeName, "Exchange not found")]
    ELSE IF did.kind = "return"
    THEN [status |-> "fulfilled", reason |-> "", value |-> did.value]
    ELSE [status |-> "fulfilled", reason |-> "",
          value |-> FailureResult("unknown",
                                  MessageOr(did.message, "Unknown error"))]

\* the async callback of exchangeNames.map: the value its promise settles with
WrapExchangeCall(exchangeName, did) ==
    IF ~RegistryHas(exchangeName)
    THEN [status |-> "fulfilled", reason |-> "",
          value |-> FailureResult(exchangeName, "Exchange not found")]
    ELSE IF did.kind = "return"
    THEN [status |-> "fulfilled", reason |-> "", value |-> did.value]
    ELSE [status |-> "fulfilled", reason |-> "",
          value |-> FailureResult(exchangeName,
                                  MessageOr(did.message, "Unknown error"))]

\* variant: the join resolves with the first settled promise (a race)
AnySettled(prom) ==
    \E i \in 1..Len(prom) : prom[i].status \in {"fulfilled", "rejected"}

\* Promise.allSettled(promises) resolves once no promise is pending
AllSettled(prom) ==
    \A i \in 1..Len(prom) : prom[i].status \in {"fulfilled", "rejected"}

\* variant: each outcome is pushed when it arrives, in order of completion
ProcessResultsByCompletion(prom) ==
    [k \in 1..Len(prom) |->
        LET index == CHOOSE j \in 1..Len(prom) :
                        Cardinality({l \in 1..Len(prom) :
                                        prom[l].seq < prom[j].seq}) = k - 1
        IN  IF prom[index].status = "fulfilled"
            THEN prom[index].value
            ELSE FailureResult(exchangeNames[index],
                               MessageOr(prom[index].reason,
                                         "Promise rejected"))]

\* exchangeResults.forEach((result, index) => results.push(...))
ProcessResults(prom) ==
    [index \in 1..Len(prom) |->
        IF prom[index].status = "fulfilled"
        THEN prom[index].value
        ELSE FailureResult(exchangeNames[index],
                           MessageOr(prom[index].reason, "Promise rejected"))]

\* variant: results.filter(r => r.success && r.data?.price)
SuccessfulResultsByPrice(results) ==
    SelectSeq(results,
              LAMBDA r : r.success /\ Truthy(r.data) /\ Truthy(r.data.price))

\* results.filter(r => r.success && r.data)
SuccessfulResults(results) ==
    SelectSeq(results, LAMBDA r : r.success /\ Truthy(r.data))

\* variant: prices above twice the first price are dropped as outliers
PricesOfWithoutOutliers(successfulResults) ==
    LET all == [k \in 1..Len(successfulResults) |->
                   successfulResults[k].data.price]
    IN  SelectSeq(all, LAMBDA p :
            ~(/\ NumLeq(NumAdd(all[1], all[1]), p)
              /\ p # NumAdd(all[1], all[1])))

\* successfulResults.map(r => r.data!.price)
PricesOf(successfulResults) ==
    [k \in 1..Len(successfulResults) |-> successfulResults[k].data.price]

RECURSIVE SumUpTo(_, _)
\* prices.reduce((sum, price) => sum + price, 0) over the first k prices
SumUpTo(prices, k) ==
    IF k = 0 THEN Num(0)
    ELSE NumAdd(SumUpTo(prices, k - 1), prices[k])

HasNaN(prices) == \E k \in 1..Len(prices) : prices[k].nan

\* Math.min(...prices) for a non-empty list
MathMin(prices) ==
    IF HasNaN(prices) THEN NaN
    ELSE prices[CHOOSE k \in 1..Len(prices) :
                   \A j \in 1..Len(prices) : NumLeq(prices[k], prices[j])]

\* Math.max(...prices) for a non-empty list
MathMax(prices) ==
    IF HasNaN(prices) THEN NaN
    ELSE prices[CHOOSE k \in 1..Len(prices) :
                   \A j \in 1..Len(prices) : NumLeq(prices[j], prices[k])]

\* variant: the mean without the guard on an empty list (0 / 0)
AveragePriceUnguarded(prices) ==
    IF Len(prices) > 0
    THEN NumDivInt(SumUpTo(prices, Len(prices)), Len(prices))
    ELSE NaN

\* prices.length > 0 ? sum / prices.length : undefined
AveragePrice(prices) ==
    IF Len(prices) > 0
    THEN NumDivInt(SumUpTo(prices, Len(prices)), Len(prices))
    ELSE Undef

BestPrice(prices) == IF Len(prices) > 0 THEN MathMin(prices) ELSE Undef

WorstPrice(prices) == IF Len(prices) > 0 THEN MathMax(prices) ELSE Undef

\* the CryptoPriceResult getCryptoPrice returns (symbol is a string)
BuildResult(symbol, results) ==
    LET successfulResults == SuccessfulResults(results)
        prices == PricesOf(successfulResults)
    IN  [symbol |-> ToUpperCase(symbol.s),
         results |-> results,
         averagePrice |-> AveragePrice(prices),
         bestPrice |-> BestPrice(prices),
         worstPrice |-> WorstPrice(prices),
         totalExchanges |-> Len(results),
         successfulExchanges |-> Len(successfulResults)]

\* how the promise of getCryptoPrice settles after Promise.allSettled
\* resolved: symbol.toUpperCase() raises a TypeError on a non-string
GetCryptoPriceOutcome(symbol, prom) ==
    IF IsString(symbol)
    THEN [state |-> "fulfilled",
          value |-> BuildResult(symbol, ProcessResults(prom)),
          error |-> ""]
    ELSE [state |-> "rejected",
          value |-> Undef,
          error |-> NullSymbolMessage]

(***************************************************************************)
(* The exchange adapters.  getPrice of an adapter is a function of its     *)
(* arguments and of what the provider does: the body of its try block      *)
(* returns an ExchangeResult or raises, and its catch block turns what is  *)
(* raised into a Failure.                                                  *)
(***************************************************************************)
\* what an awaited HTTP request does: axios raises (network error, timeout,
\* status outside 2xx), or resolves with the parsed body in response.data
\* (status 0: no response was received)
HttpError(message, status) ==
    [kind |-> "error", message |-> message, status |-> status]
HttpOk(data) == [kind |-> "ok", data |-> data]

HttpErrors ==
    {HttpError("Network Error", 0),
     HttpError("timeout of 10000ms exceeded", 0),
     HttpError("Request failed with status code 400", 400),
     HttpError("Request failed with status code 404", 404),
     HttpError("Request failed with status code 500", 500)}

\* variant: what the try block raises leaves getPrice
CatchNothing(exchange, outcome) == outcome

\* catch (error: any) { return { exchange, success: false,
\*                               error: error.message || 'Unknown error' } }
CatchAll(exchange, outcome) ==
    IF outcome.kind = "throw"
    THEN Returned(FailureResult(exchange,
                                MessageOr(outcome.message, "Unknown error")))
    ELSE outcome

\* BinanceExchange.getPrice and CoinbaseExchange.getPrice: the try block
TickerPriceTry(exchange, symbol, http) ==
    IF ~IsString(symbol) THEN Threw(NullSymbolMessage)
    ELSE IF http.kind = "error" THEN Threw(http.message)
    ELSE IF Nullish(http.data) THEN Threw(CannotRead(http.data, "price"))
    ELSE Returned(SuccessResult(exchange,
                                ParseFloat(Get(http.data, "price"))))

BinanceGetPrice(symbol, http) ==
    CatchAll("Binance", TickerPriceTry("Binance", symbol, http))

CoinbaseGetPrice(symbol, http) ==
    CatchAll("Coinbase", TickerPriceTry("Coinbase", symbol, http))

\* result[Object.keys(result)[0]] for an object of at most one key
FirstValue(result) ==
    IF IsObject(result) /\ DOMAIN result.fields # {}
    THEN result.fields[CHOOSE key \in DOMAIN result.fields : TRUE]
    ELSE Undef

\* KrakenExchange.getPrice: the try block
KrakenTry(symbol, http) ==
    IF ~IsString(symbol) THEN Threw(NullSymbolMessage)
    ELSE IF http.kind = "error" THEN Threw(http.message)
    ELSE IF Nullish(http.data) THEN Threw(CannotRead(http.data, "result"))
    ELSE IF Nullish(Get(http.data, "result"))
    THEN Threw("Cannot convert undefined or null to object")
    ELSE LET pairData == FirstValue(Get(http.data, "result"))
         IN  IF ~Truthy(pairData)
             THEN Returned(FailureResult("Kraken", "No data found for symbol"))
             ELSE IF Nullish(Get(pairData, "c"))
             THEN Threw(CannotRead(Get(pairData, "c"), "0"))
             ELSE IF Nullish(Get(pairData, "v"))
             THEN Threw(CannotRead(Get(pairData, "v"), "1"))
             ELSE IF Nullish(Get(pairData, "p"))
             THEN Threw(CannotRead(Get(pairData, "p"), "1"))
             ELSE Returned(SuccessResult("Kraken",
                               ParseFloat(At(Get(pairData, "c"), 0))))

KrakenGetPrice(symbol, http) == CatchAll("Kraken", KrakenTry(symbol, http))

\* OKXExchange.getPrice: the try block
OKXTry(symbol, http) ==
    IF ~IsString(symbol) THEN Threw(NullSymbolMessage)
    ELSE IF http.kind = "error" THEN Threw(http.message)
    ELSE IF Nullish(http.data) THEN Threw(CannotRead(http.data, "data"))
    ELSE LET data == Get(http.data, "data")
         IN  IF Truthy(data) /\ IsArray(data) /\ Len(data.items) > 0
             THEN IF Nullish(At(data, 0))
                  THEN Threw(CannotRead(At(data, 0), "last"))
                  ELSE Returned(SuccessResult("OKX",
                                    ParseFloat(Get(At(data, 0), "last"))))
             ELSE Returned(FailureResult("OKX", "No data found for symbol"))

OKXGetPrice(symbol, http) == CatchAll("OKX", OKXTry(symbol, http))

\* HyperliquidExchange.getPrice: the try block
HyperliquidTry(symbol, http) ==
    IF ~IsString(symbol) THEN Threw(NullSymbolMessage)
    ELSE IF http.kind = "error" THEN Threw(http.message)
    ELSE IF Truthy(http.data)
            /\ Truthy(Get(http.data, ToUpperCase(symbol.s)))
    THEN Returned(SuccessResult("Hyperliquid",
                      ParseFloat(Get(http.data, ToUpperCase(symbol.s)))))
    ELSE Returned(FailureResult("Hyperliquid",
                                "Symbol not found on Hyperliquid"))

HyperliquidGetPrice(symbol, http) ==
    CatchAll("Hyperliquid", HyperliquidTry(symbol, http))

(***************************************************************************)
(* The token address service (TokenAddressService): it asks its sources    *)
(* one after the other, collects the records they return, and selects one. *)
(***************************************************************************)
\* the sources in the order getTokenAddress asks them, which is also
\* sourcePriority
SourcePriority == << "coingecko", "coinmarketcap", "moralis", "etherscan" >>

\* sourcePriority.indexOf(source), counted from 1 (0: not in the list)
PriorityIndex(source) ==
    IF \E k \in 1..Len(SourcePriority) : SourcePriority[k] = source
    THEN CHOOSE k \in 1..Len(SourcePriority) : SourcePriority[k] = source
    ELSE 0

\* the keys of CHAIN_MAPPINGS.coingecko, .coinmarketcap and .moralis
MappedChains == {1, 56, 137, 42161, 10, 250, 43114, 25, 100, 1284, 1285}

\* the prefix each getFrom... puts before the message of what it caught
SourceErrorPrefix ==
    [coingecko |-> "CoinGecko API error: ",
     coinmarketcap |-> "CoinMarketCap API error: ",
     moralis |-> "Moralis API error: ",
     etherscan |-> "Etherscan API error: "]

\* a TokenAddressInfo
TokenAddressInfo(address, chainId, source, decimals) ==
    [t |-> "object", address |-> address, chainId |-> chainId,
     source |-> source, decimals |-> decimals]

\* parseInt(value) for the values of the model
ParseInt(value) ==
    IF IsNumber(value) /\ ~value.nan /\ value.den = 1 THEN value
    ELSE IF IsString(value) /\ value.s \in {"0", "1", "3", "2000"}
    THEN NumberTable[value.s]
    ELSE NaN

\* the number of decimals a source falls back to
DefaultDecimals == 18

\* value || 18
DecimalsOrDefault(value) ==
    IF Truthy(value) THEN value ELSE Num(DefaultDecimals)

\* the decimals member of the record a source builds from the decimals its
\* provider reports: platformData.decimal_place || 18 of getFromCoinGecko,
\* 18 of getFromCoinMarketCap, token.decimals of getFromMoralis,
\* parseInt(token.decimals) || 18 of getFromEtherscan
SourceDecimals(source, decimals) ==
    CASE source = "coingecko" -> DecimalsOrDefault(decimals)
      [] source = "coinmarketcap" -> Num(DefaultDecimals)
      [] source = "moralis" -> decimals
      [] source = "etherscan" -> DecimalsOrDefault(ParseInt(decimals))

\* getFromCoinGecko, getFromCoinMarketCap, getFromMoralis, getFromEtherscan:
\* a chain without mapping raises before any request; otherwise the answers
\* of the provider decide between a record, null and an error
GetFromSource(source, chainId, answer) ==
    IF source # "etherscan" /\ chainId \notin MappedChains
    THEN Threw(SourceErrorPrefix[source] \o "Unsupported chain ID: "
               \o ToString(chainId))
    ELSE IF answer.kind = "error"
    THEN Threw(SourceErrorPrefix[source] \o answer.message)
    ELSE IF answer.kind = "none" THEN Returned(JNull)
    ELSE Returned(TokenAddressInfo(answer.address,
                      IF source = "etherscan" THEN 1 ELSE chainId, source,
                      SourceDecimals(source, answer.decimals)))

\* the sources getTokenAddress asks: CoinGecko, CoinMarketCap and Moralis
\* if their API key is set, Etherscan on chain 1
SourcesAsked(chainId, env) ==
    SelectSeq(SourcePriority,
              LAMBDA source :
                  CASE source = "coingecko" -> TRUE
                    [] source = "coinmarketcap" -> env.COINMARKETCAP_API_KEY
                    [] source = "moralis" -> env.MORALIS_API_KEY
                    [] source = "etherscan" -> chainId = 1)

\* result.address.toLowerCase()
AddressKey(result) == ToLowerCase(result.address.s)

\* addressGroups.get(key): the positions of the records with this address
Confirmations(results, key) ==
    {k \in 1..Len(results) : AddressKey(results[k]) = key}

\* variant: the record of the first source that answered, without a vote
SelectFirstResult(results) == Returned(results[1])

\* TokenAddressService.verifyAndSelectBestResult: the groups are visited in
\* the order of their first record and a later group wins only with more
\* records; the winning group is sorted by source priority.  (address is a
\* string in every TokenAddressInfo.)
verifyAndSelectBestResult(results) ==
    IF Len(results) = 1 THEN Returned(results[1])
    ELSE
    LET groupOf(k) == Confirmations(results, AddressKey(results[k]))
        firstOf(k) == CHOOSE i \in groupOf(k) : \A j \in groupOf(k) : i <= j
        best == CHOOSE k \in 1..Len(results) :
                    /\ firstOf(k) = k
                    /\ \A j \in 1..Len(results) :
                        \/ Cardinality(groupOf(j)) < Cardinality(groupOf(k))
                        \/ /\ Cardinality(groupOf(j)) = Cardinality(groupOf(k))
                           /\ k <= firstOf(j)
        bestResults == groupOf(best)
        winner == CHOOSE k \in bestResults :
                      \A j \in bestResults :
                          PriorityIndex(results[k].source)
                              <= PriorityIndex(results[j].source)
    IN  Returned(results[winner])

\* variant: the error of a source is not caught and leaves getTokenAddress
ServiceGetTokenAddressUncaught(symbol, chainId, env, answers) ==
    LET asked == SourcesAsked(chainId, env)
        got(source) == GetFromSource(source, chainId, answers[source])
        raising == {k \in 1..Len(asked) : got(asked[k]).kind = "throw"}
        found == SelectSeq(asked, LAMBDA source : Truthy(got(source).value))
        results == [k \in 1..Len(found) |-> got(found[k]).value]
    IN  IF raising # {}
        THEN got(asked[CHOOSE k \in raising : \A j \in raising : k <= j])
        ELSE IF Len(results) = 0
        THEN Returned([success |-> FALSE, data |-> Undef,
                       error |-> Str("No token address found"),
                       sources |-> found])
        ELSE Returned([success |-> TRUE,
                       data |-> verifyAndSelectBestResult(results).value,
                       error |-> Undef, sources |-> found])

\* variant: the first source that raises ends the cascade; the sources
\* after it are not asked
ServiceGetTokenAddressAbortsOnFailure(symbol, chainId, env, answers) ==
    LET all == SourcesAsked(chainId, env)
        raises(source) ==
            GetFromSource(source, chainId, answers[source]).kind = "throw"
        raising == {k \in 1..Len(all) : raises(all[k])}
        asked == IF raising = {} THEN all
                 ELSE SubSeq(all, 1,
                             (CHOOSE k \in raising :
                                  \A j \in raising : k <= j) - 1)
        got(source) == GetFromSource(source, chainId, answers[source])
        found == SelectSeq(asked, LAMBDA source : Truthy(got(source).value))
        results == [k \in 1..Len(found) |-> got(found[k]).value]
    IN  IF Len(results) = 0
        THEN Returned([success |-> FALSE, data |-> Undef,
                       error |-> Str("No token address found for "
                                     \o symbol.s \o " on chain "
                                     \o ToString(chainId)),
                       sources |-> found])
        ELSE Returned([success |-> TRUE,
                       data |-> verifyAndSelectBestResult(results).value,
                       error |-> Undef, sources |-> found])

\* TokenAddressService.getTokenAddress: symbol.toUpperCase() stands before
\* the try block; what verifyAndSelectBestResult raises is caught
ServiceGetTokenAddress(symbol, chainId, env, answers) ==
    IF ~IsString(symbol) THEN Threw(CannotRead(symbol, "toUpperCase"))
    ELSE
    LET asked == SourcesAsked(chainId, env)
        got(source) == GetFromSource(source, chainId, answers[source])
        found == SelectSeq(asked,
                           LAMBDA source : /\ got(source).kind = "return"
                                           /\ Truthy(got(source).value))
        results == [k \in 1..Len(found) |-> got(found[k]).value]
        selected == verifyAndSelectBestResult(results)
    IN  IF Len(results) = 0
        THEN Returned([success |-> FALSE, data |-> Undef,
                       error |-> Str("No token address found for "
                                     \o symbol.s \o " on chain "
                                     \o ToString(chainId)),
                       sources |-> found])
        ELSE IF selected.kind = "throw"
        THEN Returned([success |-> FALSE, data |-> Undef,
                       error |-> Str(MessageOr(selected.message,
                                               "Unknown error occurred")),
                       sources |-> found])
        ELSE Returned([success |-> TRUE, data |-> selected.value,
                       error |-> Undef, sources |-> found])

\* the requests one source awaits one after the other: CoinGecko /search
\* and, with a match, /coins/{id}; CoinMarketCap /cryptocurrency/map and,
\* with a match, /cryptocurrency/info; Moralis /erc20; Etherscan; none on
\* a chain without mapping, which raises before any request
SourceRequests(source, chainId, answer) ==
    LET detailed == answer.kind = "found" \/ "request" \in DOMAIN answer
    IN  IF source # "etherscan" /\ chainId \notin MappedChains THEN << >>
        ELSE IF source = "coingecko"
        THEN << "coingecko /search" >>
             \o (IF detailed THEN << "coingecko /coins" >> ELSE << >>)
        ELSE IF source = "coinmarketcap"
        THEN << "coinmarketcap /cryptocurrency/map" >>
             \o (IF detailed THEN << "coinmarketcap /cryptocurrency/info" >>
                 ELSE << >>)
        ELSE IF source = "moralis" THEN << "moralis /erc20" >>
        ELSE << "etherscan" >>

\* the requests getTokenAddress awaits one after the other: those of each
\* source it asks, in the order of the sources
TokenAddressRequests(symbol, chainId, env, answers) ==
    LET asked == SourcesAsked(chainId, env)
        of(source) ==
            IF \E k \in 1..Len(asked) : asked[k] = source
            THEN SourceRequests(source, chainId, answers[source])
            ELSE << >>
    IN  IF ~IsString(symbol) THEN << >>
        ELSE of("coingecko") \o of("coinmarketcap") \o of("moralis")
             \o of("etherscan")

\* this.tokenAddressService.getTokenAddress(normalizedSymbol,
\* this.chainConfig.chainId) of a DEX adapter, over token sources that
\* answer as service says while the API keys of service.env are set
AskService(normalizedSymbol, chainId, service) ==
    ServiceGetTokenAddress(Str(normalizedSymbol), chainId, service.env,
                           service.answers)

(***************************************************************************)
(* The DEX adapters.                                                       *)
(***************************************************************************)
UsdcEthereum == "0xA0b86991c6218b36c1d19D4a2e9Eb0cE3606eB48"

\* getTokenAddress of the DEX adapters after normalizeSymbol: the reference
\* table, then the result of the token address service, then null
GetTokenAddress(referenceAddress, tokenResult) ==
    IF Truthy(referenceAddress) THEN referenceAddress
    ELSE IF tokenResult.kind = "return" /\ tokenResult.value.success
            /\ Truthy(tokenResult.value.data)
    THEN tokenResult.value.data.address
    ELSE JNull

\* String(n) for the integers of the model
NumberToString(n) == ToString(n.num)

\* chainId || this.chainConfig.chainId
TargetChainId(chainId, configChainId) ==
    IF Truthy(chainId) THEN chainId ELSE Num(configChainId)

TokenNotFoundMessage(symbol, targetChainId) ==
    "Token " \o symbol.s \o " not found on chain "
    \o NumberToString(targetChainId)
    \o ". Please check if the token exists and is supported."

\* OneInchExchange.REFERENCE_TOKENS[chainId] || REFERENCE_TOKENS[1]
OneInchReferenceTokens(chainId) ==
    CASE chainId = 56 -> [USDC |-> "0x8AC76a51cc950d9822D68b83fE1Ad97B32Cd580d"]
      [] chainId = 137 ->
             [USDC |-> "0x2791Bca1f2de4661ED88A30C99A7a9449Aa84174"]
      [] chainId = 42161 ->
             [USDC |-> "0xaf88d065e77c8cC2239327C5EDb3A432268e5831"]
      [] chainId = 10 -> [USDC |-> "0x0b2C639c533813f4Aa9D7837CAf62653d097Ff85"]
      [] OTHER -> [USDC |-> UsdcEthereum]

\* table[key] of a table of addresses
ReferenceAddress(table, key) ==
    IF key \in DOMAIN table THEN Str(table[key]) ELSE Undef

\* OneInchExchange.getChainName
OneInchChainName(chainId) ==
    CASE chainId = 1 -> "ethereum"
      [] chainId = 56 -> "bsc"
      [] chainId = 137 -> "polygon"
      [] chainId = 42161 -> "arbitrum"
      [] chainId = 10 -> "optimism"
      [] OTHER -> "ethereum"

\* OneInchExchange.getQuote: response.data, or what it raises
OneInchGetQuote(configChainId, http) ==
    IF http.kind = "ok" THEN Returned(http.data)
    ELSE IF http.status = 400
    THEN Threw("Bad request to 1inch API. Token pair might not be supported.")
    ELSE IF http.status = 404
    THEN Threw("1inch API endpoint not found for chain "
               \o OneInchChainName(configChainId) \o ".")
    ELSE Threw(http.message)

\* JSON.stringify(value) for the quotes of the model that have no amounts
JsonStringify(value) ==
    IF IsString(value) THEN "\"" \o value.s \o "\""
    ELSE IF IsObject(value) /\ DOMAIN value.fields = {} THEN "{}"
    ELSE IF value = Obj([toTokenAmount |-> Str("2000"), srcAmount |-> Str("1")])
    THEN "{\"toTokenAmount\":\"2000\",\"srcAmount\":\"1\"}"
    ELSE "{\"error\":\"unsupported\"}"

\* the three formats tried in the opposite order
OneInchAmountsLastFormatFirst(quote) ==
    IF Truthy(Get(quote, "outTokenAmount"))
       /\ Truthy(Get(quote, "inTokenAmount"))
    THEN << Get(quote, "outTokenAmount"), Get(quote, "inTokenAmount") >>
    ELSE IF Truthy(Get(quote, "dstAmount")) /\ Truthy(Get(quote, "srcAmount"))
    THEN << Get(quote, "dstAmount"), Get(quote, "srcAmount") >>
    ELSE IF Truthy(Get(quote, "toTokenAmount"))
            /\ Truthy(Get(quote, "fromTokenAmount"))
    THEN << Get(quote, "toTokenAmount"), Get(quote, "fromTokenAmount") >>
    ELSE << >>

\* the two amounts of a quote in one of the three formats, or none
OneInchAmounts(quote) ==
    IF Truthy(Get(quote, "toTokenAmount"))
       /\ Truthy(Get(quote, "fromTokenAmount"))
    THEN << Get(quote, "toTokenAmount"), Get(quote, "fromTokenAmount") >>
    ELSE IF Truthy(Get(quote, "dstAmount")) /\ Truthy(Get(quote, "srcAmount"))
    THEN << Get(quote, "dstAmount"), Get(quote, "srcAmount") >>
    ELSE IF Truthy(Get(quote, "outTokenAmount"))
            /\ Truthy(Get(quote, "inTokenAmount"))
    THEN << Get(quote, "outTokenAmount"), Get(quote, "inTokenAmount") >>
    ELSE << >>

\* OneInchExchange.getPrice: the try block
OneInchTry(symbol, chainId, configChainId, world) ==
    IF ~IsString(symbol) THEN Threw(NullSymbolMessage)
    ELSE
    LET tokenAddress ==
            GetTokenAddress(
                ReferenceAddress(OneInchReferenceTokens(configChainId),
                                 ToUpperCase(symbol.s)),
                AskService(ToUpperCase(symbol.s), configChainId,
                           world.service))
        quote == OneInchGetQuote(configChainId, world.http)
    IN  IF ~Truthy(tokenAddress)
        THEN Returned(FailureResult("1inch",
                 TokenNotFoundMessage(symbol,
                                      TargetChainId(chainId, configChainId))))
        ELSE IF quote.kind = "throw" THEN quote
        ELSE IF ~Truthy(quote.value)
        THEN Returned(FailureResult("1inch",
                 "No quote received from 1inch. The token pair might not be supported or have insufficient liquidity."))
        ELSE IF OneInchAmounts(quote.value) = << >>
        THEN Returned(FailureResult("1inch",
                 "Invalid quote format received from 1inch. Expected toTokenAmount/fromTokenAmount, dstAmount/srcAmount, or outTokenAmount/inTokenAmount. Received: "
                 \o JsonStringify(quote.value)))
        ELSE LET price == NumDiv(ToNumber(OneInchAmounts(quote.value)[1]),
                                 ToNumber(OneInchAmounts(quote.value)[2]))
             IN  IF NumLeq(price, Num(0))
                 THEN Returned(FailureResult("1inch",
                                   "Invalid price calculated from quote"))
                 ELSE Returned(SuccessResult("1inch", price))

OneInchGetPrice(symbol, chainId, configChainId, world) ==
    CatchAll("1inch", OneInchTry(symbol, chainId, configChainId, world))

\* UniswapExchange.REFERENCE_TOKENS
UniswapReferenceTokens == [USDC |-> UsdcEthereum]

\* Number(BigInt(s)) / Number(2n ** 96n) for the decimal strings of the model
SqrtPriceTable ==
    ("79228162514264337593543950336" :> Num(1)) @@
    ("158456325028528675187087900672" :> Num(2)) @@
    ("39614081257132168796771975168" :> Rat(1, 2)) @@
    ("0" :> Num(0))

RECURSIVE PowerOfTen(_)
\* 10 ** k for k >= 0
PowerOfTen(k) == IF k = 0 THEN 1 ELSE 10 * PowerOfTen(k - 1)

\* Math.pow(10, k)
MathPow10(k) == IF k >= 0 THEN Num(PowerOfTen(k)) ELSE Rat(1, PowerOfTen(-k))

\* UniswapExchange.calculatePriceFromSqrtPriceX96: BigInt raises on a string
\* that is no integer, and the catch block returns 0
calculatePriceFromSqrtPriceX96(sqrtPriceX96, token0Decimals, token1Decimals) ==
    IF sqrtPriceX96 \in DOMAIN SqrtPriceTable
    THEN LET price == SqrtPriceTable[sqrtPriceX96]
         IN  NumMul(NumMul(price, price),
                    MathPow10(token0Decimals - token1Decimals))
    ELSE Num(0)

\* a TokenInfo and a PoolInfo as getTokenInfo and getPoolInfo build them
TokenInfo(address, decimals) ==
    [t |-> "object", address |-> address, decimals |-> decimals]
PoolInfo(token0, token1, sqrtPriceX96) ==
    [t |-> "object", token0 |-> token0, token1 |-> token1,
     sqrtPriceX96 |-> sqrtPriceX96]

\* UniswapExchange.findUniswapV3Pool: null without a factory on the chain of
\* the constructor, null when the lookup raises or finds the zero address
FindUniswapV3Pool(configChainId, pool) ==
    IF configChainId # DefaultChainId THEN JNull ELSE pool

\* UniswapExchange.getPrice: the try block
UniswapTry(symbol, chainId, configChainId, world) ==
    IF ~IsString(symbol) THEN Threw(NullSymbolMessage)
    ELSE
    LET tokenAddress ==
            GetTokenAddress(
                ReferenceAddress(UniswapReferenceTokens,
                                 ToUpperCase(symbol.s)),
                AskService(ToUpperCase(symbol.s), configChainId,
                           world.service))
        poolAddress == FindUniswapV3Pool(configChainId, world.pool)
        poolInfo == world.poolInfo
    IN  IF ~Truthy(tokenAddress)
        THEN Returned(FailureResult("Uniswap",
                 TokenNotFoundMessage(symbol,
                                      TargetChainId(chainId, configChainId))))
        ELSE IF ~Truthy(poolAddress)
        THEN Returned(FailureResult("Uniswap",
                 "No Uniswap V3 pool found for " \o symbol.s \o "/USDC"))
        ELSE IF ~Truthy(poolInfo)
        THEN Returned(FailureResult("Uniswap",
                                    "Failed to get pool information"))
        ELSE IF ~Truthy(Str(poolInfo.sqrtPriceX96))
        THEN Returned(FailureResult("Uniswap",
                                    "Price calculation not available"))
        ELSE IF ~IsString(tokenAddress)
        THEN Threw("tokenAddress.toLowerCase is not a function")
        ELSE
        LET isToken0 == ToLowerCase(poolInfo.token0.address)
                            = ToLowerCase(tokenAddress.s)
            tokenDecimals == IF isToken0 THEN poolInfo.token0.decimals
                             ELSE poolInfo.token1.decimals
            usdcDecimals == IF isToken0 THEN poolInfo.token1.decimals
                            ELSE poolInfo.token0.decimals
            rawPrice == calculatePriceFromSqrtPriceX96(poolInfo.sqrtPriceX96,
                            tokenDecimals, usdcDecimals)
        IN  Returned(SuccessResult("Uniswap",
                         IF isToken0 THEN rawPrice ELSE NumInverse(rawPrice)))

UniswapGetPrice(symbol, chainId, configChainId, world) ==
    CatchAll("Uniswap", UniswapTry(symbol, chainId, configChainId, world))

\* ZeroXExchange.REFERENCE_TOKENS
ZeroXReferenceTokens == [USDC |-> UsdcEthereum]

\* ZeroXExchange.getChainName
ZeroXChainName(chainId) ==
    CASE chainId = 1 -> "ethereum"
      [] chainId = 137 -> "polygon"
      [] chainId = 42161 -> "arbitrum"
      [] chainId = 10 -> "optimism"
      [] OTHER -> "ethereum"

\* ZeroXExchange.getQuote: response.data, or what it raises
ZeroXGetQuote(http) ==
    IF http.kind = "ok" THEN Returned(http.data)
    ELSE IF http.status = 404
    THEN Threw("0x API endpoint not found. This might be due to unsupported chain or token pair. Status: 404, URL: /swap/v1/quote")
    ELSE Threw(http.message)

\* BigInt(s) for the decimal strings of the model; any other string raises
BigIntTable ==
    ("2000" :> 2000) @@ ("3" :> 3) @@ ("1" :> 1) @@ ("0" :> 0)
    @@ ("-5" :> (0 - 5))

\* BigInt(value) raises on value
BigIntRaises(value) ==
    IF IsString(value) THEN value.s \notin DOMAIN BigIntTable
    ELSE IF IsNumber(value) THEN value.nan \/ value.den # 1
    ELSE TRUE

\* Number(BigInt(value))
NumberOfBigInt(value) ==
    IF IsString(value) THEN Num(BigIntTable[value.s]) ELSE value

\* ZeroXExchange.calculatePriceFromQuote: the catch block returns 0
calculatePriceFromQuote(quote, sellTokenDecimals, buyTokenDecimals) ==
    IF BigIntRaises(Get(quote, "buyAmount"))
       \/ BigIntRaises(Get(quote, "sellAmount"))
    THEN Num(0)
    ELSE NumMul(NumDiv(NumberOfBigInt(Get(quote, "buyAmount")),
                       NumberOfBigInt(Get(quote, "sellAmount"))),
                MathPow10(sellTokenDecimals - buyTokenDecimals))

\* ZeroXExchange.getPrice: the try block
ZeroXTry(symbol, chainId, configChainId, world) ==
    IF ~IsString(symbol) THEN Threw(NullSymbolMessage)
    ELSE
    LET tokenAddress ==
            GetTokenAddress(
                ReferenceAddress(ZeroXReferenceTokens,
                                 ToUpperCase(symbol.s)),
                AskService(ToUpperCase(symbol.s), configChainId,
                           world.service))
        quote == ZeroXGetQuote(world.http)
    IN  IF ~Truthy(tokenAddress)
        THEN Returned(FailureResult("0x",
                 TokenNotFoundMessage(symbol,
                                      TargetChainId(chainId, configChainId))))
        ELSE IF ~Truthy(world.tokenInfo) \/ ~Truthy(world.usdcInfo)
        THEN Returned(FailureResult("0x", "Failed to get token information"))
        ELSE IF quote.kind = "throw" THEN quote
        ELSE IF \/ ~Truthy(quote.value)
                \/ ~Truthy(Get(quote.value, "buyAmount"))
                \/ ~Truthy(Get(quote.value, "sellAmount"))
        THEN Returned(FailureResult("0x",
                 "Invalid quote received from 0x. The token pair might not be supported or have insufficient liquidity."))
        ELSE LET price == calculatePriceFromQuote(quote.value,
                              world.tokenInfo.decimals,
                              world.usdcInfo.decimals)
             IN  IF NumLeq(price, Num(0))
                 THEN Returned(FailureResult("0x",
                                   "Invalid price calculated from quote"))
                 ELSE Returned(SuccessResult("0x", price))

ZeroXGetPrice(symbol, chainId, configChainId, world) ==
    CatchAll("0x", ZeroXTry(symbol, chainId, configChainId, world))

\* JupiterExchange.REFERENCE_TOKENS
JupiterReferenceTokens ==
    [SOL |-> "So11111111111111111111111111111111111111112",
     USDC |-> "EPjFWdd5AufqSSqeM2qN1xzybapC8G4wEGGkZwyTDt1v"]

\* JupiterExchange.getTokenAddress: the reference table only
JupiterGetTokenAddress(symbol) ==
    LET referenceAddress ==
            ReferenceAddress(JupiterReferenceTokens, ToUpperCase(symbol.s))
    IN  IF Truthy(referenceAddress) THEN referenceAddress ELSE JNull

\* JupiterExchange.getPrice: the try block
JupiterTry(symbol, chainId, configChainId, http) ==
    LET targetChainId == TargetChainId(chainId, configChainId)
    IN  IF targetChainId # Num(JupiterChainId)
        THEN Returned(FailureResult("Jupiter",
                 "Jupiter only supports Solana (chainId: 101), got: "
                 \o NumberToString(targetChainId)))
        ELSE IF ~IsString(symbol) THEN Threw(NullSymbolMessage)
        ELSE IF ~Truthy(JupiterGetTokenAddress(symbol))
        THEN Returned(FailureResult("Jupiter",
                 "Token " \o symbol.s
                 \o " not found on Solana. Please check if the token exists and is supported."))
        ELSE IF http.kind = "error" THEN Threw(http.message)
        ELSE IF \/ ~Truthy(http.data)
                \/ ~Truthy(Get(http.data, "outAmount"))
                \/ ~Truthy(Get(http.data, "inAmount"))
        THEN Returned(FailureResult("Jupiter",
                                    "Invalid quote received from Jupiter"))
        ELSE LET price == NumDiv(ToNumber(Get(http.data, "outAmount")),
                                 ToNumber(Get(http.data, "inAmount")))
             IN  IF NumLeq(price, Num(0))
                 THEN Returned(FailureResult("Jupiter",
                                   "Invalid price calculated from quote"))
                 ELSE Returned(SuccessResult("Jupiter", price))

JupiterGetPrice(symbol, chainId, configChainId, http) ==
    CatchAll("Jupiter", JupiterTry(symbol, chainId, configChainId, http))

\* PancakeSwapExchange.REFERENCE_TOKENS[chainId] || REFERENCE_TOKENS[1]
PancakeSwapReferenceTokens(chainId) ==
    CASE chainId = 56 -> [USDC |-> "0x8AC76a51cc950d9822D68b83fE1Ad97B32Cd580d"]
      [] chainId = 137 ->
             [USDC |-> "0x2791Bca1f2de4661ED88A30C99A7a9449Aa84174"]
      [] OTHER -> [USDC |-> UsdcEthereum]

\* the chains with an entry in PANCAKESWAP_V3_FACTORY
PancakeSwapFactoryChains == {56, 1, 137}

\* PancakeSwapExchange.findPancakeSwapV3Pool: null without a factory on the
\* chain of the constructor, null when the lookup raises or finds the zero
\* address
FindPancakeSwapV3Pool(configChainId, pool) ==
    IF configChainId \notin PancakeSwapFactoryChains THEN JNull ELSE pool

\* PancakeSwapExchange.getPrice: the try block
PancakeSwapTry(symbol, chainId, configChainId, world) ==
    IF ~IsString(symbol) THEN Threw(NullSymbolMessage)
    ELSE
    LET targetChainId == TargetChainId(chainId, configChainId)
        tokenAddress ==
            GetTokenAddress(
                ReferenceAddress(PancakeSwapReferenceTokens(configChainId),
                                 ToUpperCase(symbol.s)),
                AskService(ToUpperCase(symbol.s), configChainId,
                           world.service))
        poolAddress == FindPancakeSwapV3Pool(configChainId, world.pool)
        poolInfo == world.poolInfo
    IN  IF ~Truthy(tokenAddress)
        THEN Returned(FailureResult("PancakeSwap",
                 TokenNotFoundMessage(symbol, targetChainId)))
        ELSE IF ~Truthy(poolAddress)
        THEN Returned(FailureResult("PancakeSwap",
                 "No PancakeSwap V3 pool found for " \o symbol.s
                 \o "/USDC on chain " \o NumberToString(targetChainId)
                 \o ". This token might not be supported on this chain."))
        ELSE IF ~Truthy(poolInfo)
        THEN Returned(FailureResult("PancakeSwap",
                                    "Failed to get pool information"))
        ELSE IF ~Truthy(Str(poolInfo.sqrtPriceX96))
        THEN Returned(FailureResult("PancakeSwap",
                                    "Price calculation not available"))
        ELSE
        LET isToken0 == ToLowerCase(poolInfo.token0.address)
                            = ToLowerCase(tokenAddress.s)
            tokenDecimals == IF isToken0 THEN poolInfo.token0.decimals
                             ELSE poolInfo.token1.decimals
            usdcDecimals == IF isToken0 THEN poolInfo.token1.decimals
                            ELSE poolInfo.token0.decimals
            rawPrice == calculatePriceFromSqrtPriceX96(poolInfo.sqrtPriceX96,
                            tokenDecimals, usdcDecimals)
        IN  Returned(SuccessResult("PancakeSwap",
                         IF isToken0 THEN rawPrice ELSE NumInverse(rawPrice)))

PancakeSwapGetPrice(symbol, chainId, configChainId, world) ==
    CatchAll("PancakeSwap",
             PancakeSwapTry(symbol, chainId, configChainId, world))

\* CurveExchange.REFERENCE_TOKENS[chainId] || REFERENCE_TOKENS[1]
CurveReferenceTokens(chainId) ==
    CASE chainId = 137 ->
             [USDC |-> "0x2791Bca1f2de4661ED88A30C99A7a9449Aa84174"]
      [] chainId = 42161 ->
             [USDC |-> "0xaf88d065e77c8cC2239327C5EDb3A432268e5831"]
      [] OTHER -> [USDC |-> UsdcEthereum]

\* CurveExchange.getChainName
CurveChainName(chainId) ==
    CASE chainId = 1 -> "ethereum"
      [] chainId = 137 -> "polygon"
      [] chainId = 42161 -> "arbitrum"
      [] OTHER -> "ethereum"

\* chainConfig.wethAddress
WethEthereum == "0xC02aaA39b223FE8D0A0e5C4F27eAD9083C756Cc2"

\* CurveExchange.getCurvePools: response.data.data?.poolData || [], and []
\* when the request or the read of response.data.data raises
GetCurvePools(http) ==
    IF http.kind = "error" \/ Nullish(http.data) THEN << >>
    ELSE LET data == Get(http.data, "data")
             poolData == IF Nullish(data) THEN Undef
                         ELSE Get(data, "poolData")
         IN  IF IsArray(poolData) THEN poolData.items ELSE << >>

\* pool.coins.map(coin => coin.address?.toLowerCase())
CoinAddresses(pool) ==
    LET coins == Get(pool, "coins").items
    IN  {ToLowerCase(Get(coins[k], "address").s) :
            k \in {j \in 1..Len(coins) : IsString(Get(coins[j], "address"))}}

\* pool.coins && pool.coins.length >= 2 && both addresses are among the
\* coins
PoolHasBoth(pool, addressA, addressB) ==
    /\ IsArray(Get(pool, "coins"))
    /\ Len(Get(pool, "coins").items) >= 2
    /\ ToLowerCase(addressA) \in CoinAddresses(pool)
    /\ ToLowerCase(addressB) \in CoinAddresses(pool)

\* CurveExchange.findCurvePool: the first pool with the token and USDC, else
\* the first pool with the token and WETH, else null
FindCurvePool(pools, tokenAddress, usdcAddress, wethAddress) ==
    LET direct == {k \in 1..Len(pools) :
                      PoolHasBoth(pools[k], tokenAddress, usdcAddress)}
        viaWeth == {k \in 1..Len(pools) :
                       PoolHasBoth(pools[k], tokenAddress, wethAddress)}
        first(S) == CHOOSE k \in S : \A j \in S : k <= j
    IN  IF direct # {} THEN pools[first(direct)]
        ELSE IF viaWeth # {} THEN pools[first(viaWeth)]
        ELSE JNull

\* CurveExchange.getPoolPrice
GetPoolPrice(pool) ==
    IF Truthy(Get(pool, "virtualPrice"))
    THEN ParseFloat(Get(pool, "virtualPrice"))
    ELSE JNull

\* CurveExchange.getPrice: the try block
CurveTry(symbol, chainId, configChainId, world) ==
    IF ~IsString(symbol) THEN Threw(NullSymbolMessage)
    ELSE
    LET targetChainId == TargetChainId(chainId, configChainId)
        tokenAddress ==
            GetTokenAddress(
                ReferenceAddress(CurveReferenceTokens(configChainId),
                                 ToUpperCase(symbol.s)),
                AskService(ToUpperCase(symbol.s), configChainId,
                           world.service))
        pool == FindCurvePool(GetCurvePools(world.http), tokenAddress.s,
                              CurveReferenceTokens(configChainId).USDC,
                              WethEthereum)
        price == GetPoolPrice(pool)
    IN  IF ~Truthy(tokenAddress)
        THEN Returned(FailureResult("Curve",
                 TokenNotFoundMessage(symbol, targetChainId)))
        ELSE IF ~Truthy(pool)
        THEN Returned(FailureResult("Curve",
                 "No Curve pool found for " \o symbol.s \o "/USDC or "
                 \o symbol.s \o "/WETH on chain "
                 \o NumberToString(targetChainId)
                 \o ". Curve primarily supports stablecoins and similar assets."))
        ELSE IF ~Truthy(price) \/ NumLeq(price, Num(0))
        THEN Returned(FailureResult("Curve",
                                    "Failed to get price from Curve pool"))
        ELSE Returned(SuccessResult("Curve", price))

CurveGetPrice(symbol, chainId, configChainId, world) ==
    CatchAll("Curve", CurveTry(symbol, chainId, configChainId, world))

(***************************************************************************)
(* The result formatters of the tool handlers (index.ts).  The rendered    *)
(* text is kept as its parts: the summary numbers, the statistics block,   *)
(* the lines of the CEX and DEX sections, the warning line.                *)
(***************************************************************************)
CexNames == {"binance", "okx", "coinbase", "kraken"}
DexNames == {"hyperliquid", "uniswap", "0x"}

\* one line of a section: the check mark with the price, or the cross with
\* the error
ExchangeLine(r) ==
    IF r.success /\ Truthy(r.data)
    THEN [exchange |-> r.exchange, ok |-> TRUE, price |-> r.data.price,
          error |-> Undef]
    ELSE [exchange |-> r.exchange, ok |-> FALSE, price |-> Undef,
          error |-> r.error]

SectionLines(results, names) ==
    LET picked == SelectSeq(results,
                            LAMBDA r : ToLowerCase(r.exchange) \in names)
    IN  [k \in 1..Len(picked) |-> ExchangeLine(picked[k])]

\* the "Price Statistics" block, printed if (averagePrice)
StatisticsBlock(result) ==
    IF Truthy(result.averagePrice)
    THEN [t |-> "object", average |-> result.averagePrice,
          best |-> result.bestPrice, worst |-> result.worstPrice]
    ELSE Undef

\* variant: the warning is printed whenever the statistics block is not
WarningLineWithoutStatistics(result) == ~Truthy(result.averagePrice)

\* the warning line, printed if (successfulExchanges === 0)
WarningLine(result) == result.successfulExchanges = 0

formatSinglePriceResult(result) ==
    [isError |-> FALSE,
     text |-> [kind |-> "single",
               symbol |-> result.symbol,
               totalExchanges |-> result.totalExchanges,
               successful |-> result.successfulExchanges,
               statistics |-> StatisticsBlock(result),
               cex |-> SectionLines(result.results, CexNames),
               dex |-> SectionLines(result.results, DexNames),
               warning |-> WarningLine(result)]]

\* one numbered block of the multi-symbol text
SymbolBlock(result, index) ==
    [number |-> index,
     symbol |-> result.symbol,
     successful |-> result.successfulExchanges,
     totalExchanges |-> result.totalExchanges,
     statistics |-> StatisticsBlock(result),
     noData |-> ~Truthy(result.averagePrice)]

formatMultiplePriceResults(results) ==
    [isError |-> FALSE,
     text |-> [kind |-> "multiple",
               total |-> Len(results),
               blocks |-> [k \in 1..Len(results) |->
                              SymbolBlock(results[k], k)]]]

\* CryptoPriceChecker.getSupportedExchanges: the keys of the registry
getSupportedExchanges == exchanges

\* the exchange names written out in the text of list_supported_exchanges
ListedExchanges ==
    << "Binance", "OKX", "Coinbase", "Kraken",
       "Hyperliquid", "Uniswap", "0x Swap" >>

\* the result of case 'list_supported_exchanges': the names of the list
\* and the number after "Total:"
formatSupportedExchanges ==
    [isError |-> FALSE,
     text |-> [kind |-> "exchanges",
               names |-> ListedExchanges,
               total |-> Len(getSupportedExchanges)]]

\* the catch block of the stdio CallTool handler
StdioError(message) ==
    [isError |-> TRUE,
     text |-> [kind |-> "error", message |-> "Error: " \o message]]

\* what a handler sends back: a tool result, or (HTTP only) a JSON-RPC error
\* (status 0: the handler sets no HTTP status and the framework's default
\* applies)
JsonRpcInternalError == 32603
HttpServerError == 500

ToolResponse(handler, settled, format) ==
    IF settled.state = "fulfilled"
    THEN [handler |-> handler, kind |-> "result",
          status |-> 0,
          result |-> format, error |-> Undef]
    ELSE IF handler = "stdio"
    THEN [handler |-> handler, kind |-> "result", status |-> 0,
          result |-> StdioError(settled.error), error |-> Undef]
    ELSE [handler |-> handler, kind |-> "error", status |-> HttpServerError,
          result |-> Undef,
          error |-> [code |-> 0 - JsonRpcInternalError,
                     message |-> settled.error]]

(***************************************************************************)
(* State.                                                                  *)
(***************************************************************************)
VARIABLES
    request,    \* the tool call being served
    pc,         \* "idle", "dispatching" (the synchronous fan-out is running),
                \* "awaiting" (the handler awaits the aggregator), "done"
    aggs,       \* one record per running getCryptoPrice call
    queue,      \* the invocations still running, in the order in which
                \* they will complete
    response,   \* what the handler sent back
    call        \* one getPrice invocation of one adapter, taken on its own

vars == << request, pc, aggs, queue, response, call >>

NoRequest == [handler |-> "none", tool |-> "none", args |-> Undef]

Handlers == {"stdio", "http"}

UnstartedPromise ==
    [status |-> "unstarted", did |-> NotCalled, value |-> Undef,
     reason |-> "", chainArg |-> Undef, seq |-> 0]

\* the state of getCryptoPrice(symbol, chainId) on entry
NewAggregation(symbol, chainId) ==
    [symbol |-> symbol, chainId |-> chainId,
     prom |-> [i \in 1..NumExchanges |-> UnstartedPromise],
     state |-> "running", value |-> Undef, error |-> ""]

\* no getPrice invocation is taken on its own
NoCall ==
    [status |-> "idle", adapter |-> "none", symbol |-> Undef,
     chainId |-> Undef, configChainId |-> DefaultChainId, world |-> Undef,
     lookupChain |-> Undef, quoteChain |-> Undef, answered |-> 0,
     outcome |-> NotCalled]

Init ==
    /\ request = NoRequest
    /\ pc = "idle"
    /\ aggs = << >>
    /\ queue = << >>
    /\ response = Undef
    /\ call = NoCall

(***************************************************************************)
(* The order of completion.  Invocation (a, i) is adapter i of aggregation *)
(* a; its number is (a - 1) * NumExchanges + i, the order of the starts.   *)
(***************************************************************************)
ScheduleKinds == {"fifo", "lifo", "stride5", "stride7"}

NumInvocations == Len(aggs) * NumExchanges
AggOf(id) == ((id - 1) \div NumExchanges) + 1
IndexOf(id) == ((id - 1) % NumExchanges) + 1
PromiseOf(id) == aggs[AggOf(id)].prom[IndexOf(id)]

\* the invocation that completes t-th (t from 0) among m under a schedule
OrderAt(kind, m, t) ==
    CASE kind = "fifo" -> t + 1
      [] kind = "lifo" -> m - t
      [] kind = "stride5" -> ((5 * t) % m) + 1
      [] kind = "stride7" -> ((7 * t + 3) % m) + 1

\* getPrice of the adapter returns without sending a request: the symbol
\* is no string (symbol.toUpperCase() raises), or JupiterExchange has no
\* table entry for it (its getTokenAddress reads the table only)
SendsNoRequest(exchangeName, symbol) ==
    \/ ~IsString(symbol)
    \/ /\ exchangeName = "jupiter"
       /\ ~Truthy(JupiterGetTokenAddress(symbol))

\* the microtask turn in which the promise of an invocation that sends no
\* request settles: normalizeSymbol stands in getPrice itself for the CEX
\* adapters and Hyperliquid (1), behind await this.getTokenAddress(symbol)
\* for the others (2)
MicrotaskTurn(exchangeName) ==
    IF exchangeName \in {"binance", "okx", "coinbase", "kraken", "hyperliquid"}
    THEN 1
    ELSE 2

\* The order in which the invocations of a call for these symbols complete.
\* An invocation that sends no request settles with the microtasks, ahead
\* of every network completion: turn by turn, within a turn in the order of
\* the starts.
CompletionOrder(kind, symbols) ==
    LET m == Len(symbols) * NumExchanges
        name(id) == exchangeNames[IndexOf(id)]
        early(id) == SendsNoRequest(name(id), symbols[AggOf(id)])
        inTurn(turn) ==
            SelectSeq([id \in 1..m |-> id],
                      LAMBDA id : early(id) /\ MicrotaskTurn(name(id)) = turn)
    IN  inTurn(1) \o inTurn(2)
        \o SelectSeq([t \in 1..m |-> OrderAt(kind, m, t - 1)],
                     LAMBDA id : ~early(id))

IsPending(id) == PromiseOf(id).status = "pending"

SettledCount == NumInvocations - Len(queue)

\* invocations of this tool call that did not return a declared Failure
ActiveCount ==
    Cardinality({id \in 1..NumInvocations :
                    \/ PromiseOf(id).did.kind = "throw"
                    \/ /\ PromiseOf(id).did.kind = "return"
                       /\ PromiseOf(id).did.value.success})

(***************************************************************************)
(* Inputs.                                                                 *)
(***************************************************************************)
\* the symbol argument of a call: a string, or not a string
SymbolArgs == {Str("btc"), Str("ETH"), JNull}
SingleSymbolArgs == {Str("btc"), JNull}

\* lists of distinct symbol arguments, up to MaxSymbols long
SymbolLists ==
    {items \in UNION {[1..n -> SymbolArgs] : n \in 0..MaxSymbols} :
        \A j, k \in 1..Len(items) : j # k => items[j] # items[k]}

\* the symbols argument of get_multiple_crypto_prices: a list, or no list
SymbolsArgs == {Arr(items) : items \in SymbolLists} \cup {Undef, Str("btc")}

\* prices the providers quote
SinglePrices == {Num(1), Num(3), NaN}
MultiPrices == {Num(2)}

\* what getPrice of an adapter can do when it is handed symbol
Behaviours(exchangeName, symbol, prices) ==
    IF ~IsString(symbol)
    THEN {Returned(FailureResult(AdapterName[exchangeName],
                                 NullSymbolMessage))}
    ELSE IF SendsNoRequest(exchangeName, symbol)
    THEN {JupiterGetPrice(symbol, Num(JupiterChainId), JupiterChainId,
                          HttpOk(JNull))}
    ELSE {Returned(FailureResult(AdapterName[exchangeName],
                                 "Request failed with status code 400"))}
         \cup {Returned(SuccessResult(AdapterName[exchangeName], p)) :
                  p \in prices}
         \cup {Threw("adapter fault")}

IsDeclaredFailure(did) == did.kind = "return" /\ ~did.value.success

(***************************************************************************)
(* The aggregator: fan-out, completions, join.                             *)
(***************************************************************************)
\* variant: each call is awaited inside the loop, so a completion can be
\* delivered as soon as one call is in flight
FanOutAwaitingEach ==
    \E id \in 1..NumInvocations : PromiseOf(id).status = "pending"

\* the synchronous fan-out (symbols.map, exchangeNames.map) has run to the
\* await of Promise.allSettled: only then can the event loop deliver a
\* completion
FanOutComplete ==
    \A id \in 1..NumInvocations : PromiseOf(id).status # "unstarted"

\* exchange.getPrice(...) is called for the next exchange name of the map
StartAdapter ==
    /\ pc = "dispatching"
    /\ \E id \in 1..NumInvocations :
        /\ PromiseOf(id).status = "unstarted"
        /\ \A other \in 1..(id - 1) : PromiseOf(other).status # "unstarted"
        /\ LET a == AggOf(id)
               i == IndexOf(id)
               name == exchangeNames[i]
               started ==
                   IF RegistryHas(name)
                   THEN [UnstartedPromise EXCEPT
                            !.status = "pending",
                            !.chainArg = ChainArgument(name, aggs[a].chainId,
                                                       Num(DefaultChainId))]
                   ELSE [UnstartedPromise EXCEPT
                            !.status = "fulfilled",
                            !.value = WrapExchangeCall(name, NotCalled).value]
           IN  /\ aggs' = [aggs EXCEPT ![a].prom[i] = started]
               /\ pc' = IF id = NumInvocations THEN "awaiting" ELSE pc
    /\ UNCHANGED << request, queue, response, call >>

\* an invocation that sends no request has still to settle: that happens
\* in the microtasks of the call, in its first turns
MicrotaskSettlementDue ==
    /\ queue # << >>
    /\ SendsNoRequest(exchangeNames[IndexOf(Head(queue))],
                      aggs[AggOf(Head(queue))].symbol)

\* the reaction of await Promise.allSettled(promises) is ready to run: every
\* promise is settled, and so are the promises of the other calls that
\* settle in the first microtask turns, before the reaction gets its turn
FinishEnabled(a) ==
    /\ aggs[a].state = "running"
    /\ AllSettled(aggs[a].prom)
    /\ ~MicrotaskSettlementDue

\* the promise the handler awaits: getCryptoPrice's own, or the Promise.all
\* of getMultipleCryptoPrices (rejected with the first rejection, fulfilled
\* with every value once all are fulfilled)
AwaitedPromise ==
    IF request.tool = "get_crypto_price"
    THEN [state |-> aggs[1].state, value |-> aggs[1].value,
          error |-> aggs[1].error]
    ELSE IF \E a \in 1..Len(aggs) : aggs[a].state = "rejected"
    THEN LET a == CHOOSE b \in 1..Len(aggs) : aggs[b].state = "rejected"
         IN  [state |-> "rejected", value |-> Undef, error |-> aggs[a].error]
    ELSE IF \A a \in 1..Len(aggs) : aggs[a].state = "fulfilled"
    THEN [state |-> "fulfilled",
          value |-> [a \in 1..Len(aggs) |-> aggs[a].value], error |-> ""]
    ELSE [state |-> "running", value |-> Undef, error |-> ""]

RespondEnabled == pc = "awaiting" /\ AwaitedPromise.state # "running"

\* promise reactions run before the next network completion is delivered
MicrotasksPending ==
    \/ \E a \in 1..Len(aggs) : FinishEnabled(a)
    \/ RespondEnabled

\* one adapter's getPrice completes; the wrapper's promise settles
SettleAdapter(prices, budget) ==
    /\ FanOutComplete
    /\ ~MicrotasksPending
    /\ queue # << >>
    /\ IsPending(Head(queue))
    /\ \E id \in {Head(queue)}, active \in {ActiveCount} :
         \E did \in Behaviours(exchangeNames[IndexOf(id)],
                               aggs[AggOf(id)].symbol, prices) :
           /\ IsDeclaredFailure(did) \/ active < budget
           /\ \E settled \in {WrapExchangeCall(exchangeNames[IndexOf(id)], did)} :
                aggs' = [aggs EXCEPT ![AggOf(id)].prom[IndexOf(id)] =
                            [status |-> settled.status,
                             did |-> did,
                             value |-> settled.value,
                             reason |-> settled.reason,
                             chainArg |-> @.chainArg,
                             seq |-> SettledCount + 1]]
    /\ queue' = Tail(queue)
    /\ UNCHANGED << request, pc, response, call >>

\* variant: results is a member of CryptoPriceChecker that every call pushes
\* to, so a call finds in it what the call that finished before it left
FinishAggregationShared ==
    /\ \E a \in 1..Len(aggs) :
        /\ FinishEnabled(a)
        /\ \A b \in 1..(a - 1) : ~FinishEnabled(b)
        /\ LET earlier == SelectSeq(aggs, LAMBDA g : g.state = "fulfilled")
               left == IF earlier = << >> THEN << >>
                       ELSE earlier[Len(earlier)].value.results
               out == IF IsString(aggs[a].symbol)
                      THEN [state |-> "fulfilled",
                            value |-> BuildResult(aggs[a].symbol,
                                left \o ProcessResults(aggs[a].prom)),
                            error |-> ""]
                      ELSE GetCryptoPriceOutcome(aggs[a].symbol, aggs[a].prom)
           IN  aggs' = [aggs EXCEPT ![a].state = out.state,
                                    ![a].value = out.value,
                                    ![a].error = out.error]
    /\ UNCHANGED << request, pc, queue, response, call >>

\* Promise.allSettled resolved: the rest of getCryptoPrice runs
FinishAggregation ==
    /\ \E a \in 1..Len(aggs) :
        /\ FinishEnabled(a)
        /\ \A b \in 1..(a - 1) : ~FinishEnabled(b)
        /\ LET out == GetCryptoPriceOutcome(aggs[a].symbol, aggs[a].prom)
           IN  aggs' = [aggs EXCEPT ![a].state = out.state,
                                    ![a].value = out.value,
                                    ![a].error = out.error]
    /\ UNCHANGED << request, pc, queue, response, call >>

(***************************************************************************)
(* The tool handlers.                                                      *)
(***************************************************************************)
\* case 'get_crypto_price', up to the await of getCryptoPrice(symbol)
CallGetCryptoPrice ==
    /\ pc = "idle"
    /\ \E handler \in Handlers, symbol \in SingleSymbolArgs,
          kind \in ScheduleKinds :
        /\ request' = [handler |-> handler, tool |-> "get_crypto_price",
                       args |-> [symbol |-> symbol]]
        /\ aggs' = << NewAggregation(symbol, Undef) >>
        /\ queue' = CompletionOrder(kind, << symbol >>)
    /\ pc' = "dispatching"
    /\ UNCHANGED << response, call >>

\* the rest of case 'get_crypto_price': format, or the catch block
RespondGetCryptoPrice ==
    /\ RespondEnabled
    /\ request.tool = "get_crypto_price"
    /\ response' = ToolResponse(request.handler, AwaitedPromise,
                                formatSinglePriceResult(AwaitedPromise.value))
    /\ pc' = "done"
    /\ UNCHANGED << request, aggs, queue, call >>

\* case 'list_supported_exchanges': nothing is awaited, the handler answers
\* in the same step
CallListSupportedExchanges ==
    /\ pc = "idle"
    /\ \E handler \in Handlers :
        /\ request' = [handler |-> handler,
                       tool |-> "list_supported_exchanges", args |-> Undef]
        /\ response' = [handler |-> handler, kind |-> "result", status |-> 0,
                        result |-> formatSupportedExchanges, error |-> Undef]
    /\ pc' = "done"
    /\ UNCHANGED << aggs, queue, call >>

\* variant: if (!Array.isArray(symbols)) throw ...
SymbolsValidNoLength(symbols) == IsArray(symbols)

\* if (!Array.isArray(symbols) || symbols.length === 0) throw ...
SymbolsValid(symbols) == IsArray(symbols) /\ Len(symbols.items) # 0

ValidationMessage == "Symbols array is required and cannot be empty"

\* case 'get_multiple_crypto_prices', up to the await of
\* getMultipleCryptoPrices(symbols)
CallGetMultipleCryptoPrices ==
    /\ pc = "idle"
    /\ \E handler \in Handlers, symbols \in SymbolsArgs,
          kind \in {"fifo", "lifo", "stride5"} :
        /\ request' = [handler |-> handler,
                       tool |-> "get_multiple_crypto_prices",
                       args |-> [symbols |-> symbols]]
        /\ IF ~SymbolsValid(symbols)
           THEN /\ response' = ToolResponse(handler,
                                   [state |-> "rejected",
                                    error |-> ValidationMessage], Undef)
                /\ aggs' = << >>
                /\ queue' = << >>
                /\ pc' = "done"
           ELSE /\ queue' = CompletionOrder(kind, symbols.items)
                /\ aggs' = [a \in 1..Len(symbols.items) |->
                              NewAggregation(symbols.items[a], Undef)]
                /\ pc' = IF Len(symbols.items) = 0
                         THEN "awaiting" ELSE "dispatching"
                /\ UNCHANGED response
    /\ UNCHANGED call

\* the rest of case 'get_multiple_crypto_prices'
RespondGetMultipleCryptoPrices ==
    /\ RespondEnabled
    /\ request.tool = "get_multiple_crypto_prices"
    /\ response' = ToolResponse(request.handler, AwaitedPromise,
                          formatMultiplePriceResults(AwaitedPromise.value))
    /\ pc' = "done"
    /\ UNCHANGED << request, aggs, queue, call >>

(***************************************************************************)
(* One getPrice invocation of one adapter, and what its provider does.     *)
(***************************************************************************)
AdapterKinds ==
    {"binance", "coinbase", "kraken", "okx", "hyperliquid", "uniswap", "1inch",
     "0x", "jupiter", "pancakeswap", "curve"}

AdapterSymbolArgs == {Str("btc"), Str("usdc"), JNull}
\* the chainId argument and the chain of the constructor: Ethereum,
\* Polygon, BSC, Solana, and 999 that no table of any adapter lists
ChainIdArgs ==
    {Undef, Num(137), Num(PancakeSwapChainId), Num(JupiterChainId), Num(999)}
ConfigChainIds ==
    {DefaultChainId, 137, PancakeSwapChainId, JupiterChainId, 999}

\* response bodies: well-formed, without the expected members, no JSON
TickerBodies ==
    {Obj([price |-> Str("42000.5")]), Obj([price |-> Str("n/a")]),
     Obj([price |-> Str("0")]),
     Obj([msg |-> Str("Invalid symbol.")]), Str("<html>"), JNull}

KrakenBodies ==
    {Obj([result |-> Obj([XBTUSDT |->
             Obj([c |-> Arr(<< Str("42000.5"), Str("1") >>),
                  v |-> Arr(<< Str("1"), Str("3") >>),
                  p |-> Arr(<< Str("1"), Str("3") >>)])])]),
     Obj([result |-> Obj([XBTUSDT |->
             Obj([c |-> Arr(<< Str("42000.5"), Str("1") >>)])])]),
     Obj([result |-> Obj([XBTUSDT |->
             Obj([c |-> Arr(<< >>),
                  v |-> Arr(<< Str("1"), Str("3") >>),
                  p |-> Arr(<< Str("1"), Str("3") >>)])])]),
     Obj([result |-> Obj(EmptyFields)]),
     Obj([error |-> Arr(<< Str("EQuery:Unknown asset pair") >>)]),
     JNull}

OKXBodies ==
    {Obj([data |-> Arr(<< Obj([last |-> Str("42000.5")]) >>)]),
     Obj([data |-> Arr(<< Obj([lastPx |-> Str("42000.5")]) >>)]),
     Obj([data |-> Arr(<< JNull >>)]),
     Obj([data |-> Arr(<< >>)]),
     Obj([msg |-> Str("Instrument ID does not exist")]),
     JNull}

HyperliquidBodies ==
    {Obj([BTC |-> Str("42000.5")]), Obj([BTC |-> Str("n/a")]),
     Obj([BTC |-> Str("0")]),
     Obj([ETH |-> Str("3")]), Str("<html>"), JNull}

OneInchQuotes ==
    {Obj([toTokenAmount |-> Str("2000"), fromTokenAmount |-> Str("1")]),
     Obj([dstAmount |-> Str("2000"), srcAmount |-> Str("1")]),
     Obj([outTokenAmount |-> Str("3"), inTokenAmount |-> Str("1")]),
     Obj([toTokenAmount |-> Str("0"), fromTokenAmount |-> Str("1")]),
     Obj([toTokenAmount |-> Str("n/a"), fromTokenAmount |-> Str("1")]),
     Obj([toTokenAmount |-> Str("2000"), fromTokenAmount |-> Str("1"),
          dstAmount |-> Str("3"), srcAmount |-> Str("1"),
          outTokenAmount |-> Str("1"), inTokenAmount |-> Str("1")]),
     Obj([toTokenAmount |-> Str("2000"),
          dstAmount |-> Str("3"), srcAmount |-> Str("1"),
          outTokenAmount |-> Str("1"), inTokenAmount |-> Str("1")]),
     Obj([fromTokenAmount |-> Str("1"), dstAmount |-> Str("3"),
          outTokenAmount |-> Str("2000"), inTokenAmount |-> Str("1")]),
     Obj([toTokenAmount |-> Str("2000"), srcAmount |-> Str("1")]),
     Obj(EmptyFields), Str("<html>"), Str("")}

UniswapPoolInfos ==
    {JNull}
    \cup {PoolInfo(TokenInfo("0xToken", 8), TokenInfo(UsdcEthereum, 6), sqrt) :
             sqrt \in {"158456325028528675187087900672", "0", "n/a"}}
    \cup {PoolInfo(TokenInfo(UsdcEthereum, 6), TokenInfo("0xToken", 8), sqrt) :
             sqrt \in {"39614081257132168796771975168", "0"}}

ZeroXQuotes ==
    {Obj([buyAmount |-> Str("2000"), sellAmount |-> Str("1")]),
     Obj([buyAmount |-> Str("0"), sellAmount |-> Str("1")]),
     Obj([buyAmount |-> Str("3"), sellAmount |-> Str("0")]),
     Obj([buyAmount |-> Str("0"), sellAmount |-> Str("0")]),
     Obj([buyAmount |-> Str("n/a"), sellAmount |-> Str("1")]),
     Obj([code |-> Num(100)]), Str("<html>"), JNull}

JupiterQuotes ==
    {Obj([outAmount |-> Str("2000"), inAmount |-> Str("1")]),
     Obj([outAmount |-> Str("0"), inAmount |-> Str("1")]),
     Obj([outAmount |-> Str("3"), inAmount |-> Str("0")]),
     Obj([outAmount |-> Str("n/a"), inAmount |-> Str("1")]),
     Obj([error |-> Str("No routes found")]), Str("<html>"), JNull}

\* a pool of the Curve API with its coins and, if any, its virtual price
CurvePool(coins, virtualPrice) ==
    Obj([coins |-> Arr([k \in 1..Len(coins) |->
                           Obj([address |-> Str(coins[k])])]),
         virtualPrice |-> virtualPrice])

CurvePoolLists ==
    {<< >>,
     << CurvePool(<< "0xtoken", ToLowerCase(UsdcEthereum) >>, Str("1")) >>,
     << CurvePool(<< "0xToken", WethEthereum >>, Str("3")) >>,
     << CurvePool(<< "0xToken", WethEthereum >>, Str("3")),
        CurvePool(<< UsdcEthereum, "0xToken" >>, Str("42000.5")) >>,
     << CurvePool(<< UsdcEthereum, WethEthereum >>, Str("1")) >>,
     << CurvePool(<< "0xToken", UsdcEthereum >>, Str("0")) >>,
     << CurvePool(<< "0xToken", UsdcEthereum >>, Str("n/a")) >>,
     << CurvePool(<< "0xToken", UsdcEthereum >>, Undef) >>,
     << CurvePool(<< "0xToken" >>, Str("1")) >>}

CurveBodies ==
    {Obj([data |-> Obj([poolData |-> Arr(pools)])]) : pools \in CurvePoolLists}
    \cup {Obj([success |-> Str("false")]), Str("<html>"), JNull}

HttpOutcomes(bodies) == HttpErrors \cup {HttpOk(body) : body \in bodies}

\* no API key of a token source is set (COINMARKETCAP_API_KEY,
\* MORALIS_API_KEY of the environment)
NoApiKeys == [COINMARKETCAP_API_KEY |-> FALSE, MORALIS_API_KEY |-> FALSE]

\* a token source has no match
NoMatch == [kind |-> "none"]
\* a token source has the token
Match == [kind |-> "found", address |-> Str("0xToken"), decimals |-> Undef]

\* the token sources during one getPrice: CoinGecko and Etherscan have the
\* token; no source has it; CoinGecko fails and Etherscan has it; the
\* details of CoinGecko lack the address and CoinMarketCap, whose key is
\* set, has it
ServiceWorlds ==
    {[env |-> NoApiKeys,
      answers |-> [coingecko |-> Match, coinmarketcap |-> NoMatch,
                   moralis |-> NoMatch, etherscan |-> Match]],
     [env |-> NoApiKeys,
      answers |-> [coingecko |-> NoMatch, coinmarketcap |-> NoMatch,
                   moralis |-> NoMatch, etherscan |-> NoMatch]],
     [env |-> NoApiKeys,
      answers |-> [coingecko |->
                       [kind |-> "error",
                        message |-> "Request failed with status code 429"],
                   coinmarketcap |-> NoMatch, moralis |-> NoMatch,
                   etherscan |-> Match]],
     [env |-> [COINMARKETCAP_API_KEY |-> TRUE, MORALIS_API_KEY |-> FALSE],
      answers |-> [coingecko |-> [kind |-> "none", request |-> 2],
                   coinmarketcap |-> Match, moralis |-> NoMatch,
                   etherscan |-> NoMatch]]}

\* what the provider of an adapter can do during one getPrice (poolRounds:
\* the rounds of reads getPoolInfo makes, 1 when the reads of the pool
\* contract raise, 2 when it gets to the reads of the two token contracts)
Worlds(adapter) ==
    CASE adapter \in {"binance", "coinbase"} -> HttpOutcomes(TickerBodies)
      [] adapter = "kraken" -> HttpOutcomes(KrakenBodies)
      [] adapter = "okx" -> HttpOutcomes(OKXBodies)
      [] adapter = "hyperliquid" -> HttpOutcomes(HyperliquidBodies)
      [] adapter = "1inch" ->
             [service : ServiceWorlds, http : HttpOutcomes(OneInchQuotes)]
      [] adapter \in {"uniswap", "pancakeswap"} ->
             {world \in [service : ServiceWorlds,
                         pool : {Str("0xPool"), JNull},
                         poolInfo : UniswapPoolInfos,
                         poolRounds : {1, 2}] :
                 world.poolInfo # JNull => world.poolRounds = 2}
      [] adapter = "0x" ->
             [service : ServiceWorlds,
              tokenInfo : {TokenInfo("0xToken", 8), JNull},
              usdcInfo : {TokenInfo(UsdcEthereum, 6), JNull},
              http : HttpOutcomes(ZeroXQuotes)]
      [] adapter = "jupiter" -> HttpOutcomes(JupiterQuotes)
      [] adapter = "curve" ->
             [service : ServiceWorlds, http : HttpOutcomes(CurveBodies)]

\* adapter.getPrice(symbol, chainId) of an adapter built for configChainId
GetPrice(adapter, symbol, chainId, configChainId, world) ==
    CASE adapter = "binance" -> BinanceGetPrice(symbol, world)
      [] adapter = "coinbase" -> CoinbaseGetPrice(symbol, world)
      [] adapter = "kraken" -> KrakenGetPrice(symbol, world)
      [] adapter = "okx" -> OKXGetPrice(symbol, world)
      [] adapter = "hyperliquid" -> HyperliquidGetPrice(symbol, world)
      [] adapter = "1inch" ->
             OneInchGetPrice(symbol, chainId, configChainId, world)
      [] adapter = "uniswap" ->
             UniswapGetPrice(symbol, chainId, configChainId, world)
      [] adapter = "0x" ->
             ZeroXGetPrice(symbol, chainId, configChainId, world)
      [] adapter = "jupiter" ->
             JupiterGetPrice(symbol, chainId, configChainId, world)
      [] adapter = "pancakeswap" ->
             PancakeSwapGetPrice(symbol, chainId, configChainId, world)
      [] adapter = "curve" ->
             CurveGetPrice(symbol, chainId, configChainId, world)

\* the member of the response body a CEX adapter hands to parseFloat for
\* the price; undefined when the body has no such member
PriceField(adapter, body) ==
    CASE adapter \in {"binance", "coinbase"} -> Get(body, "price")
      [] adapter = "kraken" ->
             At(Get(FirstValue(Get(body, "result")), "c"), 0)
      [] adapter = "okx" -> Get(At(Get(body, "data"), 0), "last")

\* the chains a DEX adapter has table entries for: Jupiter's only chain, and
\* the keys of defaultRpcUrls / REFERENCE_TOKENS / getChainName of the others
SupportedChains(adapter) ==
    CASE adapter = "jupiter" -> {JupiterChainId}
      [] adapter = "uniswap" -> {1, 137, 42161, 10}
      [] adapter = "0x" -> {1, 137, 42161, 10}
      [] adapter = "1inch" -> {1, 56, 137, 42161, 10}
      [] adapter = "pancakeswap" -> {56, 1, 137}
      [] adapter = "curve" -> {1, 137, 42161}

\* the chain whose reference table an adapter reads and whose tokens it asks
\* the token address service for: this.chainConfig.chainId
LookupChain(adapter, chainId, configChainId) ==
    IF adapter \in {"uniswap", "0x", "1inch", "pancakeswap", "curve"}
    THEN Num(configChainId)
    ELSE Undef

\* the chain an adapter asks its quote, its factory or its pool list of: the
\* chain of the constructor, except that ZeroXExchange hands targetChainId
\* to getQuote
QuoteChain(adapter, chainId, configChainId) ==
    IF adapter = "0x" THEN TargetChainId(chainId, configChainId)
    ELSE IF adapter \in {"uniswap", "1inch", "pancakeswap", "curve"}
    THEN Num(configChainId)
    ELSE Undef

\* getTokenAddress of a DEX adapter: unless the reference table has the
\* symbol the token address service is asked, and what getPrice waits for
\* is each request of the service in turn (none on a chain no source
\* serves)
TokenAddressLookup(referenceAddress, normalizedSymbol, chainId, service) ==
    IF Truthy(referenceAddress) THEN << >>
    ELSE TokenAddressRequests(Str(normalizedSymbol), chainId, service.env,
                              service.answers)

\* REFERENCE_TOKENS of a DEX adapter built for configChainId
ReferenceTokens(adapter, configChainId) ==
    CASE adapter = "1inch" -> OneInchReferenceTokens(configChainId)
      [] adapter = "uniswap" -> UniswapReferenceTokens
      [] adapter = "0x" -> ZeroXReferenceTokens
      [] adapter = "pancakeswap" -> PancakeSwapReferenceTokens(configChainId)
      [] adapter = "curve" -> CurveReferenceTokens(configChainId)

\* findUniswapV3Pool and getPoolInfo (findPancakeSwapV3Pool alike): no read
\* without a factory on the chain; getPool of the factory; with a pool, the
\* five reads of the pool contract and then the reads of the two token
\* contracts, each round awaited as one
PoolRequests(hasFactory, poolAddress, world) ==
    IF ~hasFactory THEN << >>
    ELSE << "factory.getPool" >>
         \o (IF ~Truthy(poolAddress) THEN << >>
             ELSE IF world.poolRounds = 1 THEN << "pool reads" >>
             ELSE << "pool reads", "token reads" >>)

\* what getPrice awaits after it has the token address
RequestsWithToken(adapter, configChainId, world) ==
    CASE adapter = "1inch" -> << "quote" >>
      [] adapter = "0x" ->
             << "token reads" >>
             \o (IF Truthy(world.tokenInfo) /\ Truthy(world.usdcInfo)
                 THEN << "quote" >> ELSE << >>)
      [] adapter = "uniswap" ->
             PoolRequests(configChainId = DefaultChainId,
                          FindUniswapV3Pool(configChainId, world.pool), world)
      [] adapter = "pancakeswap" ->
             PoolRequests(configChainId \in PancakeSwapFactoryChains,
                          FindPancakeSwapV3Pool(configChainId, world.pool),
                          world)
      [] adapter = "curve" -> << "pool list" >>

\* the requests getPrice awaits one after the other; at each of them it
\* returns to the event loop, and what it finds decides whether there is a
\* next one
GetPriceRequests(adapter, symbol, chainId, configChainId, world) ==
    IF adapter = "jupiter"
    THEN IF /\ TargetChainId(chainId, configChainId) = Num(JupiterChainId)
            /\ IsString(symbol)
            /\ Truthy(JupiterGetTokenAddress(symbol))
         THEN << "quote" >> ELSE << >>
    ELSE IF ~IsString(symbol) THEN << >>
    ELSE IF adapter \in {"binance", "coinbase", "kraken", "okx", "hyperliquid"}
    THEN << "ticker" >>
    ELSE
    LET referenceAddress ==
            ReferenceAddress(ReferenceTokens(adapter, configChainId),
                             ToUpperCase(symbol.s))
        tokenAddress ==
            GetTokenAddress(referenceAddress,
                            AskService(ToUpperCase(symbol.s), configChainId,
                                       world.service))
    IN  TokenAddressLookup(referenceAddress, ToUpperCase(symbol.s),
                           configChainId, world.service)
        \o (IF Truthy(tokenAddress)
            THEN RequestsWithToken(adapter, configChainId, world)
            ELSE << >>)

\* getPrice is called: it runs up to the first request it awaits
CallGetPrice ==
    /\ pc = "idle"
    /\ call.status = "idle"
    /\ \E adapter \in AdapterKinds, symbol \in AdapterSymbolArgs,
          chainId \in ChainIdArgs, configChainId \in ConfigChainIds :
        \E world \in Worlds(adapter) :
            call' = [status |-> "pending", adapter |-> adapter,
                     symbol |-> symbol, chainId |-> chainId,
                     configChainId |-> configChainId, world |-> world,
                     lookupChain |->
                         LookupChain(adapter, chainId, configChainId),
                     quoteChain |->
                         QuoteChain(adapter, chainId, configChainId),
                     answered |-> 0, outcome |-> NotCalled]
    /\ UNCHANGED << request, pc, aggs, queue, response >>

\* the requests of the getPrice invocation under way
GetPriceRequestsOfCall ==
    GetPriceRequests(call.adapter, call.symbol, call.chainId,
                     call.configChainId, call.world)

\* the request getPrice waits on is answered or fails: getPrice runs on to
\* the next request it awaits
GetPriceRequestEnds ==
    /\ call.status = "pending"
    /\ call.adapter \in AdapterKinds
    /\ call.answered < Len(GetPriceRequestsOfCall)
    /\ call' = [call EXCEPT !.answered = @ + 1]
    /\ UNCHANGED << request, pc, aggs, queue, response >>

\* no request is left: the promise of getPrice settles, fulfilled with what
\* getPrice returns, rejected with what it raises
GetPriceSettles ==
    /\ call.status = "pending"
    /\ call.answered = Len(GetPriceRequestsOfCall)
    /\ call' = [call EXCEPT
                   !.status = "settled",
                   !.outcome = GetPrice(call.adapter, call.symbol,
                                        call.chainId, call.configChainId,
                                        call.world)]
    /\ UNCHANGED << request, pc, aggs, queue, response >>

\* what one source of the token address service answers: a record with an
\* address (two spellings of one address, or one of two other addresses)
\* and the decimals the provider reports for it (none, 6, 0, or "3" as a
\* string), no match, or an error
SourceAnswers ==
    {[kind |-> "found", address |-> Str("0xToken"), decimals |-> Undef],
     [kind |-> "found", address |-> Str("0xtoken"), decimals |-> Num(6)],
     [kind |-> "found", address |-> Str("0xOther"), decimals |-> Num(0)],
     [kind |-> "found", address |-> Str("0xThird"), decimals |-> Str("3")],
     [kind |-> "none"],
     [kind |-> "error", message |-> "Request failed with status code 429"]}

\* what CoinGecko or CoinMarketCap answers: as above when the symbol search
\* decides (a match whose details have the address, no match, an error),
\* or a search with a match whose details request has no address for the
\* chain or fails
LookupAnswers ==
    SourceAnswers
    \cup {[kind |-> "none", request |-> 2],
          [kind |-> "error", message |-> "Request failed with status code 500",
           request |-> 2]}

ServiceSymbolArgs == {Str("BTC"), Str("usdc")}
ServiceChainIds == {1, 137, 999}
ServiceEnvs ==
    [COINMARKETCAP_API_KEY : BOOLEAN, MORALIS_API_KEY : BOOLEAN]

\* tokenAddressService.getTokenAddress is called: it runs up to the first
\* request it awaits
CallGetTokenAddress ==
    /\ pc = "idle"
    /\ call.status = "idle"
    /\ \E symbol \in ServiceSymbolArgs, chainId \in ServiceChainIds,
          env \in ServiceEnvs,
          answers \in [coingecko : LookupAnswers,
                       coinmarketcap : LookupAnswers,
                       moralis : SourceAnswers,
                       etherscan : SourceAnswers] :
        call' = [status |-> "pending", adapter |-> "TokenAddressService",
                 symbol |-> symbol, chainId |-> chainId, env |-> env,
                 world |-> answers, answered |-> 0, outcome |-> NotCalled]
    /\ UNCHANGED << request, pc, aggs, queue, response >>

\* the requests of the getTokenAddress call under way
RequestsOfCall ==
    TokenAddressRequests(call.symbol, call.chainId, call.env, call.world)

\* the request getTokenAddress waits on is answered or fails: the service
\* runs on to the next request it awaits
SourceRequestEnds ==
    /\ call.status = "pending"
    /\ call.adapter = "TokenAddressService"
    /\ call.answered < Len(RequestsOfCall)
    /\ call' = [call EXCEPT !.answered = @ + 1]
    /\ UNCHANGED << request, pc, aggs, queue, response >>

\* no request is left: getTokenAddress selects among the records and its
\* promise settles
GetTokenAddressSettles ==
    /\ call.status = "pending"
    /\ call.answered = Len(RequestsOfCall)
    /\ call' = [call EXCEPT
                   !.status = "settled",
                   !.outcome = ServiceGetTokenAddress(call.symbol,
                                   call.chainId, call.env, call.world)]
    /\ UNCHANGED << request, pc, aggs, queue, response >>

(***************************************************************************)
(* One getCryptoPrice call over a network in which some providers never    *)
(* answer: every outbound request of an adapter, the time limit it was     *)
(* given, and what ends it.                                                *)
(***************************************************************************)
\* the largest number of providers that stay silent during one call
MaxSilent == 1

\* timeout of the axios instance of the CEX adapters, of the DEX adapters
\* and of the four clients of the token address service, in milliseconds
CexTimeout == 5000
DexTimeout == 10000
ServiceTimeout == 10000
\* axios' own default, which a request made without a timeout option runs
\* under: 0, the request is never aborted
NoTimeout == 0

\* a request of an axios client to a provider, and its time limit
OutboundCall(to, timeout) == [to |-> to, via |-> "axios", timeout |-> timeout]

\* the reads of a contract through new ethers.JsonRpcProvider(rpcUrl): the
\* provider is handed the URL and nothing of this.config, so this code sets
\* no time limit and what ends a read is the library's business
RpcRead(to) == [to |-> to, via |-> "ethers", timeout |-> NoTimeout]

\* the message of the error axios raises when the time limit passes
TimeoutMessage(timeout) ==
    "timeout of " \o ToString(timeout) \o "ms exceeded"

\* what each token source does in such a network: its request runs into
\* the time limit when the sources are silent, it has the token when they
\* answer
SourcesUnder(silent) ==
    [source \in {"coingecko", "coinmarketcap", "moralis", "etherscan"} |->
        IF "token sources" \in silent
        THEN [kind |-> "error", message |-> TimeoutMessage(ServiceTimeout)]
        ELSE Match]

\* the token sources of the server in such a network: no API key is set
ServiceUnder(silent) == [env |-> NoApiKeys, answers |-> SourcesUnder(silent)]

\* getTokenAddress: unless the symbol is in the reference table, the token
\* address service is asked and makes its requests one after the other,
\* each under the time limit of its client; a request that fails is caught
\* and the service goes on to its next source
TokenLookupCalls(table, symbol, chainId, silent) ==
    IF ToUpperCase(symbol.s) \in DOMAIN table THEN << >>
    ELSE LET requests ==
                 TokenAddressRequests(Str(ToUpperCase(symbol.s)), chainId,
                                      ServiceUnder(silent).env,
                                      ServiceUnder(silent).answers)
         IN  [k \in 1..Len(requests) |->
                 OutboundCall("token sources", ServiceTimeout)]

\* the chain the constructor of CryptoPriceChecker builds an adapter for
ConstructedChain(name) ==
    CASE name = "jupiter" -> JupiterChainId
      [] name = "pancakeswap" -> PancakeSwapChainId
      [] OTHER -> DefaultChainId

\* the reads of a pool through the provider of rpc: getPool of the factory
\* and, when that is answered, the reads of the pool contract and the reads
\* of the two token contracts
PoolReads(rpc, silent) ==
    << RpcRead(rpc) >>
    \o (IF rpc \in silent THEN << >> ELSE << RpcRead(rpc), RpcRead(rpc) >>)

\* what getPrice of a DEX adapter awaits after it has the token address
CallsWithToken(name, silent) ==
    CASE name = "1inch" -> << OutboundCall(name, DexTimeout) >>
      [] name = "0x" ->
             << RpcRead("ethereum rpc") >>
             \o (IF "ethereum rpc" \in silent THEN << >>
                 ELSE << OutboundCall(name, DexTimeout) >>)
      [] name = "uniswap" -> PoolReads("ethereum rpc", silent)
      [] name = "pancakeswap" -> PoolReads("bsc rpc", silent)
      [] name = "curve" -> << OutboundCall("curve api", NoTimeout) >>

\* the requests getPrice(symbol) of an adapter awaits one after the other
\* in a network where the providers of silent do not answer: without a
\* token address, and after a read that gets no answer, there is no next
\* request
OutboundCalls(name, symbol, silent) ==
    CASE name \in {"binance", "okx", "coinbase", "kraken"} ->
             << OutboundCall(name, CexTimeout) >>
      [] name = "hyperliquid" -> << OutboundCall(name, DexTimeout) >>
      [] name = "okx-dex" -> << OutboundCall(name, DexTimeout) >>
      [] name = "jupiter" ->
             IF Truthy(JupiterGetTokenAddress(symbol))
             THEN << OutboundCall(name, DexTimeout) >>
             ELSE << >>
      [] OTHER ->
             LET lookup ==
                     TokenLookupCalls(
                         ReferenceTokens(name, ConstructedChain(name)),
                         symbol, ConstructedChain(name), silent)
                     tokenAddress ==
                     GetTokenAddress(
                         ReferenceAddress(
                             ReferenceTokens(name, ConstructedChain(name)),
                             ToUpperCase(symbol.s)),
                         AskService(ToUpperCase(symbol.s),
                                    ConstructedChain(name),
                                    ServiceUnder(silent)))
             IN  lookup
                 \o (IF Truthy(tokenAddress)
                     THEN CallsWithToken(name, silent) ELSE << >>)

\* whoever is asked during one getCryptoPrice call
Providers ==
    UNION {{OutboundCalls(exchangeNames[i], symbol, {})[k].to :
               k \in 1..Len(OutboundCalls(exchangeNames[i], symbol, {}))} :
           i \in 1..NumExchanges, symbol \in {Str("btc"), Str("usdc")}}

SilentSets == {S \in SUBSET Providers : Cardinality(S) <= MaxSilent}

\* what a request brings back: the error of the passed time limit from a
\* silent provider, a well-formed body from one that answers
HttpUnder(to, timeout, body, silent) ==
    IF to \in silent THEN HttpError(TimeoutMessage(timeout), 0)
    ELSE HttpOk(body)

\* the reads of a pool through a provider: null when they raise
PoolUnder(rpc, silent) ==
    [pool |-> IF rpc \in silent THEN JNull ELSE Str("0xPool"),
     poolRounds |-> IF rpc \in silent THEN 1 ELSE 2,
     poolInfo |-> IF rpc \in silent THEN JNull
                  ELSE PoolInfo(TokenInfo("0xToken", 8),
                                TokenInfo(UsdcEthereum, 6),
                                "158456325028528675187087900672")]

\* OKXDEXExchange.getPrice (not among the repository's files): one quote
\* request under the time limit of its configuration
OkxDexGetPrice(http) ==
    IF http.kind = "error"
    THEN Returned(FailureResult(OkxDexName, http.message))
    ELSE Returned(SuccessResult(OkxDexName, Num(1)))

\* what getPrice of an adapter returns once none of its requests is
\* outstanding
GetPriceUnder(name, symbol, chainArg, silent) ==
    LET service == ServiceUnder(silent)
        onChain(rpc) == [service |-> service] @@ PoolUnder(rpc, silent)
        world ==
            CASE name \in {"binance", "coinbase"} ->
                     HttpUnder(name, CexTimeout,
                               Obj([price |-> Str("42000.5")]), silent)
              [] name = "kraken" ->
                     HttpUnder(name, CexTimeout,
                         Obj([result |-> Obj([XBTUSDT |->
                             Obj([c |-> Arr(<< Str("42000.5"),
                                               Str("1") >>)])])]),
                         silent)
              [] name = "okx" ->
                     HttpUnder(name, CexTimeout,
                         Obj([data |-> Arr(<< Obj([last |->
                                                   Str("42000.5")]) >>)]),
                         silent)
              [] name = "hyperliquid" ->
                     HttpUnder(name, DexTimeout,
                               Obj([BTC |-> Str("42000.5")]), silent)
              [] name \in {"jupiter", "okx-dex"} ->
                     HttpUnder(name, DexTimeout,
                               Obj([outAmount |-> Str("2000"),
                                    inAmount |-> Str("1")]), silent)
              [] name = "1inch" ->
                     [service |-> service,
                      http |-> HttpUnder(name, DexTimeout,
                                   Obj([toTokenAmount |-> Str("2000"),
                                        fromTokenAmount |-> Str("1")]),
                                   silent)]
              [] name = "0x" ->
                     [service |-> service,
                      tokenInfo |-> IF "ethereum rpc" \in silent THEN JNull
                                    ELSE TokenInfo("0xToken", 8),
                      usdcInfo |-> IF "ethereum rpc" \in silent THEN JNull
                                   ELSE TokenInfo(UsdcEthereum, 6),
                      http |-> HttpUnder(name, DexTimeout,
                                   Obj([buyAmount |-> Str("2000"),
                                        sellAmount |-> Str("1")]), silent)]
              [] name = "uniswap" -> onChain("ethereum rpc")
              [] name = "pancakeswap" -> onChain("bsc rpc")
              [] name = "curve" ->
                     [service |-> service,
                      http |-> HttpUnder("curve api", NoTimeout,
                                   Obj([data |-> Obj([poolData |-> Arr(<<
                                       CurvePool(<< "0xToken", UsdcEthereum >>,
                                                 Str("42000.5")) >>)])]),
                                   silent)]
    IN  IF name = "okx-dex" THEN OkxDexGetPrice(world)
        ELSE GetPrice(name, symbol, chainArg, ConstructedChain(name), world)

\* what getPrice of each adapter of exchangeNames returns in such a network
\* once none of its requests is outstanding
ReturnsUnder(symbol, silent) ==
    [i \in 1..NumExchanges |->
        GetPriceUnder(exchangeNames[i], symbol,
                      ChainArgument(exchangeNames[i], Undef,
                                    Num(DefaultChainId)),
                      silent)]

\* the requests getPrice of each adapter of exchangeNames awaits in such a
\* network
RequestsUnder(symbol, silent) ==
    [i \in 1..NumExchanges |-> OutboundCalls(exchangeNames[i], symbol, silent)]

\* the request adapter i is waiting on (position counts the requests it
\* has got an answer to, from 1)
RequestsOf(i) == call.world.requests[i]
HasOutstanding(i) ==
    /\ aggs[1].prom[i].status = "pending"
    /\ call.world.position[i] <= Len(RequestsOf(i))
Outstanding(i) == RequestsOf(i)[call.world.position[i]]

\* the event loop has something to deliver to adapter i: an answer, the
\* error of a passed time limit, or the return of getPrice
Deliverable(i) ==
    /\ aggs[1].prom[i].status = "pending"
    /\ IF ~HasOutstanding(i) THEN TRUE
       ELSE IF Outstanding(i).to \notin call.world.silent THEN TRUE
       ELSE Outstanding(i).via = "axios"
            /\ Outstanding(i).timeout > NoTimeout

\* the adapter the next event is for, in the order of the queue
NextDelivery(i) ==
    /\ call.status = "providers"
    /\ pc = "awaiting"
    /\ ~MicrotasksPending
    /\ \E k \in 1..Len(queue) :
        /\ queue[k] = i
        /\ Deliverable(i)
        /\ \A j \in 1..(k - 1) : ~Deliverable(queue[j])

\* the promise of adapter i settles with what getPrice returns
SettledUnder(i) ==
    LET name == exchangeNames[i]
        did == call.world.returns[i]
        settled == WrapExchangeCall(name, did)
    IN  [aggs EXCEPT ![1].prom[i] =
            [status |-> settled.status, did |-> did,
             value |-> settled.value, reason |-> settled.reason,
             chainArg |-> @.chainArg, seq |-> SettledCount + 1]]

Dequeued(i) == SelectSeq(queue, LAMBDA id : id # i)

\* case 'get_crypto_price' while the providers of silent do not answer
CallOverNetwork ==
    /\ pc = "idle"
    /\ call.status = "idle"
    /\ \E handler \in Handlers, symbol \in {Str("btc"), Str("usdc")},
          kind \in {"fifo", "lifo"}, silent \in SilentSets :
        /\ request' = [handler |-> handler, tool |-> "get_crypto_price",
                       args |-> [symbol |-> symbol]]
        /\ aggs' = << NewAggregation(symbol, Undef) >>
        /\ queue' = CompletionOrder(kind, << symbol >>)
        /\ call' = [NoCall EXCEPT
                       !.status = "providers",
                       !.world =
                           [silent |-> silent,
                            position |-> [i \in 1..NumExchanges |-> 1],
                            requests |-> RequestsUnder(symbol, silent),
                            returns |-> ReturnsUnder(symbol, silent)]]
    /\ pc' = "dispatching"
    /\ UNCHANGED response

\* a provider answers the request an adapter is waiting on
ProviderAnswers ==
    /\ \E i \in {j \in 1..NumExchanges :
                    /\ NextDelivery(j)
                    /\ HasOutstanding(j)
                    /\ Outstanding(j).to \notin call.world.silent} :
        /\ call' = [call EXCEPT !.world.position[i] = @ + 1]
    /\ UNCHANGED << request, pc, aggs, queue, response >>

\* the time limit of a request to a silent provider passes and the request
\* raises: the token address service catches that and makes its next
\* request; of any other request, and of the last request of the service,
\* getPrice makes the Failure it returns
RequestTimesOut ==
    /\ \E i \in {j \in 1..NumExchanges :
                    /\ NextDelivery(j)
                    /\ HasOutstanding(j)
                    /\ Outstanding(j).to \in call.world.silent} :
        IF call.world.position[i] < Len(RequestsOf(i))
        THEN /\ call' = [call EXCEPT !.world.position[i] = @ + 1]
             /\ UNCHANGED << aggs, queue >>
        ELSE /\ \E settled \in {SettledUnder(i)}, rest \in {Dequeued(i)} :
                    aggs' = settled /\ queue' = rest
             /\ UNCHANGED call
    /\ UNCHANGED << request, pc, response >>

\* every request of getPrice was answered: it returns
AdapterReturns ==
    /\ \E i \in {j \in 1..NumExchanges :
                    NextDelivery(j) /\ ~HasOutstanding(j)} :
        \E settled \in {SettledUnder(i)}, rest \in {Dequeued(i)} :
            aggs' = settled /\ queue' = rest
    /\ UNCHANGED << request, pc, response, call >>

\* a read through the JSON-RPC provider that gets no answer is given up by
\* the library, if the library does that
LibraryGivesUp ==
    /\ call.status = "providers"
    /\ pc = "awaiting"
    /\ ~MicrotasksPending
    /\ \E i \in {j \in 1..NumExchanges :
                    /\ HasOutstanding(j)
                    /\ Outstanding(j).to \in call.world.silent
                    /\ Outstanding(j).via = "ethers"} :
        \E settled \in {SettledUnder(i)}, rest \in {Dequeued(i)} :
            aggs' = settled /\ queue' = rest
    /\ UNCHANGED << request, pc, response, call >>

(***************************************************************************)
(* The fallback token service (FallbackTokenService): CoinGecko, then the  *)
(* token lists of the chain one after the other, then a table of common    *)
(* tokens; the first record found is returned.                             *)
(***************************************************************************)
\* the keys of FallbackTokenService.CHAIN_MAPPINGS
FallbackMappedChains == {1, 56, 137, 42161, 10, 250, 43114, 25, 100}

\* TOKEN_LISTS[chainId] as the last path segment of each URL,
\* listUrl.split('/').pop(); no entry: no list
TokenLists(chainId) ==
    CASE chainId = 1 -> << "", "compound.tokenlist.json", "1inch.json" >>
      [] chainId = 56 ->
             << "pancakeswap-extended.json", "pancakeswap-default.json" >>
      [] chainId = 137 -> << "polygon.json", "aeb.tokenlist.json" >>
      [] chainId = 42161 -> << "token-list-42161.json" >>
      [] chainId = 10 -> << "optimism.tokenlist.json" >>
      [] OTHER -> << >>

\* the commonTokens table of getFromCommonTokens: address and decimals
CommonTokens(chainId) ==
    CASE chainId = 1 ->
             [WETH |-> << "0xC02aaA39b223FE8D0A0e5C4F27eAD9083C756Cc2", 18 >>,
              USDC |-> << "0xA0b86991c6218b36c1d19D4a2e9Eb0cE3606eB48", 6 >>,
              USDT |-> << "0xdAC17F958D2ee523a2206206994597C13D831ec7", 6 >>,
              DAI |-> << "0x6B175474E89094C44Da98b954EedeAC495271d0F", 18 >>,
              WBTC |-> << "0x2260FAC5E5542a773Aa44fBCfeDf7C193bc2C599", 8 >>,
              UNI |-> << "0x1f9840a85d5aF5bf1D1762F925BDADdC4201F984", 18 >>,
              LINK |-> << "0x514910771AF9Ca656af840dff83E8264EcF986CA", 18 >>,
              AAVE |-> << "0x7Fc66500c84A76Ad7e9c93437bFc5Ac33E2DDaE9", 18 >>,
              CRV |-> << "0xD533a949740bb3306d119CC777fa900bA034cd52", 18 >>,
              MKR |-> << "0x9f8F72aA9304c8B593d555F12eF6589cC3A579A2", 18 >>]
      [] chainId = 56 ->
             [WBNB |-> << "0xbb4CdB9CBd36B01bD1cBaEBF2De08d9173bc095c", 18 >>,
              USDC |-> << "0x8AC76a51cc950d9822D68b83fE1Ad97B32Cd580d", 18 >>,
              USDT |-> << "0x55d398326f99059fF775485246999027B3197955", 18 >>,
              BUSD |-> << "0xe9e7CEA3DedcA5984780Bafc599bD69ADd087D56", 18 >>,
              CAKE |-> << "0x0E09FaBB73Bd3Ade0a17ECC321fD13a19e81cE82", 18 >>,
              LINK |-> << "0xF8A0BF9cF54Bb92F17374d9e9A321E6a111a51bD", 18 >>]
      [] chainId = 137 ->
             [WMATIC |-> << "0x0d500B1d8E8eF31E21C99d1Db9A6444d3ADf1270", 18 >>,
              USDC |-> << "0x2791Bca1f2de4661ED88A30C99A7a9449Aa84174", 6 >>,
              USDT |-> << "0xc2132D05D31c914a87C6611C10748AEb04B58e8F", 6 >>,
              DAI |-> << "0x8f3Cf7ad23Cd3CaDbD9735AFf958023239c6A063", 18 >>,
              LINK |-> << "0x53E0bca35eC356BD5ddDFebbD1Fc0fD03FaBad39", 18 >>]
      [] chainId = 42161 ->
             [WETH |-> << "0x82aF49447D8a07e3bd95BD0d56f35241523fBab1", 18 >>,
              USDC |-> << "0xaf88d065e77c8cC2239327C5EDb3A432268e5831", 6 >>,
              USDT |-> << "0xFd086bC7CD5C481DCC9C85ebE478A1C0b69FCbb9", 6 >>,
              ARB |-> << "0x912CE59144191C1204E64559FE8253a0e49E6548", 18 >>,
              LINK |-> << "0xf97f4df75117a78c1A5a0DBb814Af92458539FB4", 18 >>]
      [] chainId = 10 ->
             [WETH |-> << "0x4200000000000000000000000000000000000006", 18 >>,
              USDC |-> << "0x0b2C639c533813f4Aa9D7837CAf62653d097Ff85", 6 >>,
              USDT |-> << "0x94b008aA00579c1307B0EF2c499aD98a8ce58e58", 6 >>,
              OP |-> << "0x4200000000000000000000000000000000000042", 18 >>,
              LINK |-> << "0x350a791Bfc2C21F9Ed5d10980Dad2e2638ffa7f6", 18 >>]
      [] OTHER -> [symbol \in {} |-> << >>]

\* a TokenInfo of the fallback token service
FallbackTokenInfo(address, chainId, decimals, source) ==
    [t |-> "object", address |-> address, chainId |-> chainId,
     decimals |-> decimals, source |-> source]

\* FallbackTokenService.getFromCoinGecko: a chain without mapping gives
\* null before any request; what is raised is caught and gives null
FallbackGetFromCoinGecko(chainId, answer) ==
    IF chainId \notin FallbackMappedChains THEN JNull
    ELSE IF answer.kind = "found"
    THEN FallbackTokenInfo(answer.address, chainId,
                           DecimalsOrDefault(answer.decimals), "coingecko")
    ELSE JNull

\* variant: a token list that fails ends the loop over the lists
RECURSIVE TokenListsFromAbortsOnFailure(_, _, _, _)
TokenListsFromAbortsOnFailure(lists, answers, chainId, k) ==
    IF k > Len(lists) THEN [value |-> JNull, fetched |-> k - 1]
    ELSE IF answers[k].kind = "found"
    THEN [value |-> FallbackTokenInfo(answers[k].address, chainId,
                        DecimalsOrDefault(answers[k].decimals),
                        "tokenlist-" \o lists[k]),
          fetched |-> k]
    ELSE IF answers[k].kind = "error" THEN [value |-> JNull, fetched |-> k]
    ELSE TokenListsFromAbortsOnFailure(lists, answers, chainId, k + 1)

\* the loop of getFromTokenLists from list k on: the record of the first
\* list with a matching token and the number of lists fetched; a list that
\* fails or has no match is passed over
RECURSIVE TokenListsFrom(_, _, _, _)
TokenListsFrom(lists, answers, chainId, k) ==
    IF k > Len(lists) THEN [value |-> JNull, fetched |-> k - 1]
    ELSE IF answers[k].kind = "found"
    THEN [value |-> FallbackTokenInfo(answers[k].address, chainId,
                        DecimalsOrDefault(answers[k].decimals),
                        "tokenlist-" \o lists[k]),
          fetched |-> k]
    ELSE TokenListsFrom(lists, answers, chainId, k + 1)

\* FallbackTokenService.getFromTokenLists
FallbackGetFromTokenLists(chainId, answers) ==
    TokenListsFrom(TokenLists(chainId), answers, chainId, 1)

\* FallbackTokenService.getFromCommonTokens: chainTokens[symbol] || null
getFromCommonTokens(symbol, chainId) ==
    IF symbol \in DOMAIN CommonTokens(chainId)
    THEN FallbackTokenInfo(Str(CommonTokens(chainId)[symbol][1]), chainId,
                           Num(CommonTokens(chainId)[symbol][2]), "common")
    ELSE JNull

\* a request of the fallback token service and the source it belongs to
FallbackRequest(source, what) == [source |-> source, what |-> what]

\* the requests one getTokenAddress awaits one after the other: CoinGecko
\* /search and, with a match, /coins/{id}; then, without a record so far,
\* the token lists up to the first with a match
FallbackRequests(symbol, chainId, world) ==
    LET coingecko == FallbackGetFromCoinGecko(chainId, world.coingecko)
        lists == FallbackGetFromTokenLists(chainId, world.lists)
        names == TokenLists(chainId)
        detailed == \/ world.coingecko.kind = "found"
                    \/ "request" \in DOMAIN world.coingecko
    IN  IF ~IsString(symbol) THEN << >>
        ELSE (IF chainId \in FallbackMappedChains
              THEN << FallbackRequest("coingecko", "/search") >>
                   \o (IF detailed
                       THEN << FallbackRequest("coingecko", "/coins") >>
                       ELSE << >>)
              ELSE << >>)
             \o (IF Truthy(coingecko) THEN << >>
                 ELSE [k \in 1..lists.fetched |->
                          FallbackRequest("tokenlist-" \o names[k], names[k])])

\* the table of common tokens is read when neither CoinGecko nor a token
\* list gave a record
FallbackReadsCommonTokens(symbol, chainId, world) ==
    /\ ~Truthy(FallbackGetFromCoinGecko(chainId, world.coingecko))
    /\ ~Truthy(FallbackGetFromTokenLists(chainId, world.lists).value)

\* FallbackTokenService.getTokenAddress: symbol.toUpperCase() stands before
\* the try block
FallbackGetTokenAddress(symbol, chainId, world) ==
    IF ~IsString(symbol) THEN Threw(CannotRead(symbol, "toUpperCase"))
    ELSE
    LET normalizedSymbol == ToUpperCase(symbol.s)
        coingeckoResult == FallbackGetFromCoinGecko(chainId, world.coingecko)
        tokenListResult == FallbackGetFromTokenLists(chainId, world.lists)
        commonResult == getFromCommonTokens(normalizedSymbol, chainId)
    IN  IF Truthy(coingeckoResult) THEN Returned(coingeckoResult)
        ELSE IF Truthy(tokenListResult.value)
        THEN Returned(tokenListResult.value)
        ELSE Returned(commonResult)

\* what CoinGecko or a token list answers: a matching token with the
\* decimals it reports (none, 0, 6), no match, or an error
FallbackAnswers ==
    {[kind |-> "found", address |-> Str("0xToken"), decimals |-> Undef],
     [kind |-> "found", address |-> Str("0xOther"), decimals |-> Num(0)],
     [kind |-> "found", address |-> Str("0xThird"), decimals |-> Num(6)],
     [kind |-> "none"],
     [kind |-> "error", message |-> "Request failed with status code 429"]}

\* what CoinGecko answers: as above when /search decides, or a search with
\* a match whose /coins/{id} request has no address for the chain or fails
FallbackLookupAnswers ==
    FallbackAnswers
    \cup {[kind |-> "none", request |-> 2],
          [kind |-> "error", message |-> "Request failed with status code 500",
           request |-> 2]}

\* the most token lists a chain has
MaxTokenLists == 3

FallbackSymbolArgs == {Str("usdc"), Str("BTC")}
FallbackChainIds == {1, 42161, 250, 999}

\* fallbackTokenService.getTokenAddress is called: it runs up to the first
\* request it awaits
CallFallbackGetTokenAddress ==
    /\ pc = "idle"
    /\ call.status = "idle"
    /\ \E symbol \in FallbackSymbolArgs, chainId \in FallbackChainIds,
          coingecko \in FallbackLookupAnswers,
          lists \in [1..MaxTokenLists -> FallbackAnswers] :
        call' = [status |-> "pending", adapter |-> "FallbackTokenService",
                 symbol |-> symbol, chainId |-> chainId,
                 world |-> [coingecko |-> coingecko, lists |-> lists],
                 answered |-> 0, asked |-> << >>, outcome |-> NotCalled]
    /\ UNCHANGED << request, pc, aggs, queue, response >>

\* the requests of the getTokenAddress call under way
FallbackRequestsOfCall ==
    FallbackRequests(call.symbol, call.chainId, call.world)

\* the sources consulted so far, and source consulted now
Consulted(asked, source) ==
    IF asked # << >> /\ asked[Len(asked)] = source THEN asked
    ELSE Append(asked, source)

\* the request getTokenAddress waits on is answered or fails: the service
\* runs on to the next request it awaits
FallbackRequestEnds ==
    /\ call.status = "pending"
    /\ call.adapter = "FallbackTokenService"
    /\ call.answered < Len(FallbackRequestsOfCall)
    /\ call' = [call EXCEPT
                   !.answered = @ + 1,
                   !.asked = Consulted(@,
                       FallbackRequestsOfCall[call.answered + 1].source)]
    /\ UNCHANGED << request, pc, aggs, queue, response >>

\* no request is left: the table of common tokens is read if no record was
\* found, and the promise of getTokenAddress settles
FallbackGetTokenAddressSettles ==
    /\ call.status = "pending"
    /\ call.answered = Len(FallbackRequestsOfCall)
    /\ call' = [call EXCEPT
                   !.status = "settled",
                   !.asked = IF FallbackReadsCommonTokens(call.symbol,
                                    call.chainId, call.world)
                             THEN Append(@, "common") ELSE @,
                   !.outcome = FallbackGetTokenAddress(call.symbol,
                                   call.chainId, call.world)]
    /\ UNCHANGED << request, pc, aggs, queue, response >>

\* one getTokenAddress call of the fallback token service
NextFallback ==
    \/ CallFallbackGetTokenAddress
    \/ FallbackRequestEnds
    \/ FallbackGetTokenAddressSettles

SpecFallback == Init /\ [][NextFallback]_vars

(***************************************************************************)
(* Specifications.                                                         *)
(***************************************************************************)
SettleSingle == SettleAdapter(SinglePrices, MaxActive)
SettleMulti == SettleAdapter(MultiPrices, MaxActiveMulti)

\* one get_crypto_price call, or one list_supported_exchanges call
Next ==
    \/ CallGetCryptoPrice
    \/ CallListSupportedExchanges
    \/ StartAdapter
    \/ SettleSingle
    \/ FinishAggregation
    \/ RespondGetCryptoPrice

Spec == Init /\ [][Next]_vars

\* one get_multiple_crypto_prices call
NextMulti ==
    \/ CallGetMultipleCryptoPrices
    \/ StartAdapter
    \/ SettleMulti
    \/ FinishAggregation
    \/ RespondGetMultipleCryptoPrices

SpecMulti == Init /\ [][NextMulti]_vars

\* one getPrice invocation of one adapter
NextAdapter ==
    \/ CallGetPrice
    \/ GetPriceRequestEnds
    \/ GetPriceSettles

SpecAdapter == Init /\ [][NextAdapter]_vars

\* one getTokenAddress call of the token address service
NextResolver ==
    \/ CallGetTokenAddress
    \/ SourceRequestEnds
    \/ GetTokenAddressSettles

SpecResolver == Init /\ [][NextResolver]_vars

\* one get_crypto_price call over a network with silent providers
NextNetwork ==
    \/ CallOverNetwork
    \/ StartAdapter
    \/ ProviderAnswers
    \/ RequestTimesOut
    \/ AdapterReturns
    \/ LibraryGivesUp
    \/ FinishAggregation
    \/ RespondGetCryptoPrice

\* what the event loop does by itself: it runs the code that is ready,
\* delivers the answers that were sent and fires the timers that were set
EventLoopStep ==
    \/ StartAdapter
    \/ ProviderAnswers
    \/ RequestTimesOut
    \/ AdapterReturns
    \/ FinishAggregation
    \/ RespondGetCryptoPrice

\* the event loop does not stop while it has something to do; nothing
\* obliges the library to give a read up
SpecNetwork == Init /\ [][NextNetwork]_vars /\ WF_vars(EventLoopStep)

(***************************************************************************)
(* Properties of the aggregator (checked under Spec).                      *)
(***************************************************************************)
\* C1: in every result getCryptoPrice returns, successfulExchanges is the
\* number of Success outcomes in results and totalExchanges is the length
\* of results.
C1_CountsMatchResults ==
    \A a \in 1..Len(aggs) :
        aggs[a].state = "fulfilled" =>
            LET r == aggs[a].value
            IN  /\ r.successfulExchanges =
                       Cardinality({i \in 1..Len(r.results) :
                                       r.results[i].success})
                /\ r.totalExchanges = Len(r.results)

\* a returned result holding a Success with a price that is no number, a
\* Success with a number, and Failures
C1_Witness ==
    /\ pc = "done"
    /\ request.tool = "get_crypto_price"
    /\ aggs[1].state = "fulfilled"
    /\ aggs[1].value.successfulExchanges = 2
    /\ \E i \in 1..NumExchanges :
          /\ aggs[1].value.results[i].success
          /\ aggs[1].value.results[i].data.price = NaN

\* C2: the three statistics are defined exactly when successfulExchanges
\* is positive, and then bestPrice <= averagePrice <= worstPrice.
C2_StatisticsDefinedAndOrdered ==
    \A a \in 1..Len(aggs) :
        aggs[a].state = "fulfilled" =>
            LET r == aggs[a].value
            IN  IF r.successfulExchanges > 0
                THEN /\ IsNumber(r.averagePrice)
                     /\ IsNumber(r.bestPrice)
                     /\ IsNumber(r.worstPrice)
                     /\ NumLeq(r.bestPrice, r.averagePrice)
                     /\ NumLeq(r.averagePrice, r.worstPrice)
                ELSE /\ r.averagePrice = Undef
                     /\ r.bestPrice = Undef
                     /\ r.worstPrice = Undef

\* C3: whatever the order of completion, results holds exactly one outcome
\* per configured exchange, in the order of exchangeNames: the outcome at
\* position i is the one of the i-th exchange.
C3_ResultsInConfigurationOrder ==
    \A a \in 1..Len(aggs) :
        aggs[a].state = "fulfilled" =>
            LET r == aggs[a].value
                p == aggs[a].prom
            IN  /\ Len(r.results) = Len(exchangeNames)
                /\ \A i \in 1..Len(r.results) :
                      IF p[i].did.kind = "return"
                      THEN r.results[i] = p[i].did.value
                      ELSE r.results[i].exchange = exchangeNames[i]

\* a returned result whose first exchange completed last, with a Success
\* that completed before an earlier-listed Failure
C3_Witness ==
    /\ aggs # << >>
    /\ aggs[1].state = "fulfilled"
    /\ aggs[1].prom[1].seq = NumExchanges
    /\ \E i, j \in 1..NumExchanges :
          /\ i < j
          /\ aggs[1].prom[j].seq < aggs[1].prom[i].seq
          /\ aggs[1].value.results[j].success
          /\ ~aggs[1].value.results[i].success

\* C4: when an adapter's getPrice raises, getCryptoPrice still completes
\* normally; the outcome at that exchange's position is a Failure naming
\* that exchange, and every other exchange's outcome is what its adapter
\* returned and is counted in the statistics.
C4_AdapterFaultIsolated ==
    \A a \in 1..Len(aggs) :
        LET p == aggs[a].prom
            thrown == {i \in 1..Len(p) : p[i].did.kind = "throw"}
            succeeded == {i \in 1..Len(p) :
                             /\ p[i].did.kind = "return"
                             /\ p[i].did.value.success}
        IN  (thrown # {} /\ IsString(aggs[a].symbol)) =>
                /\ aggs[a].state # "rejected"
                /\ aggs[a].state = "fulfilled" =>
                      LET r == aggs[a].value
                      IN  /\ \A i \in thrown :
                                /\ r.results[i].exchange = exchangeNames[i]
                                /\ ~r.results[i].success
                                /\ r.results[i].error = Str(p[i].did.message)
                          /\ \A j \in 1..Len(p) :
                                p[j].did.kind = "return" =>
                                    r.results[j] = p[j].did.value
                          /\ r.successfulExchanges = Cardinality(succeeded)
                          /\ r.successfulExchanges > 0 =>
                                r.averagePrice # Undef

\* a result was sent although one adapter raised while another one
\* succeeded
C4_Witness ==
    /\ pc = "done"
    /\ request.tool = "get_crypto_price"
    /\ response.kind = "result"
    /\ ~response.result.isError
    /\ \E i, j \in 1..NumExchanges :
          /\ aggs[1].prom[i].did.kind = "throw"
          /\ aggs[1].prom[j].did.kind = "return"
          /\ aggs[1].prom[j].did.value.success
          /\ aggs[1].value.successfulExchanges = 1

\* C5: getCryptoPrice settles only after every dispatched adapter call has
\* settled; no result is built from a partial set of outcomes.
C5_ResultAfterAllSettled ==
    \A a \in 1..Len(aggs) :
        aggs[a].state # "running" =>
            \A i \in 1..Len(aggs[a].prom) :
                aggs[a].prom[i].status \in {"fulfilled", "rejected"}

\* the result was built right after the last-listed exchange, which
\* completed last, succeeded
C5_Witness ==
    /\ aggs # << >>
    /\ aggs[1].state = "fulfilled"
    /\ aggs[1].prom[NumExchanges].seq = NumExchanges
    /\ aggs[1].value.results[NumExchanges].success

\* C6: every adapter call of a getCryptoPrice call is started before any
\* of them completes.
C6_AllStartedBeforeAnySettles ==
    \A a \in 1..Len(aggs) :
        (\E i \in 1..Len(aggs[a].prom) : aggs[a].prom[i].did # NotCalled) =>
            \A j \in 1..Len(aggs[a].prom) :
                aggs[a].prom[j].status # "unstarted"

\* all the adapter calls are in flight at once, none has completed
C6_Witness ==
    /\ aggs # << >>
    /\ \A i \in 1..NumExchanges : aggs[1].prom[i].status = "pending"

(***************************************************************************)
(* Properties of the tool handlers (C8 under Spec, C9 and C10 under        *)
(* SpecMulti).                                                             *)
(***************************************************************************)
\* C8: when every adapter outcome for the symbol of a get_crypto_price call
\* is a Failure, the handler answers with a normal result, never a
\* request-level error: isError is false, totalExchanges is the number of
\* configured adapters, successfulExchanges is 0, there are no statistics,
\* and the warning line is rendered.
C8_AllFailuresIsNormalResponse ==
    ( /\ pc = "done"
      /\ request.tool = "get_crypto_price"
      /\ IsString(request.args.symbol)
      /\ \A i \in 1..NumExchanges :
            ~(/\ aggs[1].prom[i].did.kind = "return"
              /\ aggs[1].prom[i].did.value.success) )
    => /\ response.kind = "result"
       /\ response.status # HttpServerError
       /\ ~response.result.isError
       /\ response.result.text.kind = "single"
       /\ response.result.text.totalExchanges = Len(exchangeNames)
       /\ response.result.text.successful = 0
       /\ response.result.text.statistics = Undef
       /\ response.result.text.warning
       /\ aggs[1].state = "fulfilled"
       /\ Len(aggs[1].value.results) = Len(exchangeNames)
       /\ \A i \in 1..NumExchanges : ~aggs[1].value.results[i].success
       /\ aggs[1].value.averagePrice = Undef
       /\ aggs[1].value.bestPrice = Undef
       /\ aggs[1].value.worstPrice = Undef

\* the HTTP handler answered a call for which no adapter succeeded, one of
\* them by raising
C8_Witness ==
    /\ pc = "done"
    /\ request.tool = "get_crypto_price"
    /\ request.handler = "http"
    /\ request.args.symbol = Str("btc")
    /\ response.kind = "result"
    /\ response.result.text.warning
    /\ \E i \in 1..NumExchanges : aggs[1].prom[i].did.kind = "throw"
    /\ \A i \in 1..NumExchanges : ~aggs[1].value.results[i].success

\* C9: a get_multiple_crypto_prices call on a non-empty list returns one
\* result per input symbol, in input order, each computed from the outcomes
\* of its own symbol alone: the total failure of one symbol, or a fault
\* while aggregating it, neither removes nor changes the results of the
\* other symbols.
C9_OneResultPerSymbol ==
    ( /\ pc = "done"
      /\ request.tool = "get_multiple_crypto_prices"
      /\ IsArray(request.args.symbols)
      /\ Len(request.args.symbols.items) > 0 )
    => /\ response.kind = "result"
       /\ ~response.result.isError
       /\ response.result.text.total = Len(request.args.symbols.items)
       /\ \A k \in 1..Len(request.args.symbols.items) :
            LET block == response.result.text.blocks[k]
                symbol == request.args.symbols.items[k]
                succeeded == {i \in 1..NumExchanges :
                                 /\ aggs[k].prom[i].did.kind = "return"
                                 /\ aggs[k].prom[i].did.value.success}
            IN  /\ block.number = k
                /\ IsString(symbol) => block.symbol = ToUpperCase(symbol.s)
                /\ block.totalExchanges = Len(exchangeNames)
                /\ block.successful = Cardinality(succeeded)
                /\ block.noData <=> succeeded = {}

\* C10: get_multiple_crypto_prices with symbols that is empty or is no list
\* fails the whole call with the input-validation error, on the stdio and
\* on the HTTP handler, before the aggregator is invoked: no aggregation
\* exists, no adapter is called.
C10_InvalidSymbolsRejected ==
    ( /\ request.tool = "get_multiple_crypto_prices"
      /\ \/ ~IsArray(request.args.symbols)
         \/ Len(request.args.symbols.items) = 0 )
    => /\ pc = "done"
       /\ aggs = << >>
       /\ queue = << >>
       /\ IF request.handler = "stdio"
          THEN /\ response.kind = "result"
               /\ response.result.isError
               /\ response.result.text.kind = "error"
               /\ response.result.text.message
                     = "Error: Symbols array is required and cannot be empty"
          ELSE /\ response.kind = "error"
               /\ response.status = HttpServerError
               /\ response.error.message = ValidationMessage

\* the HTTP handler refused an empty list
C10_Witness ==
    /\ pc = "done"
    /\ request.handler = "http"
    /\ request.args.symbols = Arr(<< >>)
    /\ response.kind = "error"
    /\ response.error.message = ValidationMessage

(***************************************************************************)
(* Properties of the adapters (checked under SpecAdapter).                 *)
(***************************************************************************)
\* C7: every getPrice invocation of an adapter, whatever the symbol and
\* whatever the provider does, resolves and never rejects, with exactly one
\* of the two outcomes: success with a PriceData and no error, or no
\* success with an error text and no PriceData.
C7_ExactlyOneOutcome ==
    call.status = "settled" =>
        /\ call.outcome.kind = "return"
        /\ LET r == call.outcome.value
           IN  \/ /\ r.success
                  /\ r.data # Undef
                  /\ IsNumber(r.data.price)
                  /\ r.error = Undef
               \/ /\ ~r.success
                  /\ r.data = Undef
                  /\ IsString(r.error)
                  /\ r.error.s # ""

\* an adapter was handed a body without the members it reads and raised
\* inside its try block: getPrice resolved with a Failure
C7_Witness ==
    /\ call.status = "settled"
    /\ call.adapter = "kraken"
    /\ call.world = HttpOk(Obj([error |->
                          Arr(<< Str("EQuery:Unknown asset pair") >>)]))
    /\ call.outcome =
          Returned(FailureResult("Kraken",
                                 "Cannot convert undefined or null to object"))

(***************************************************************************)
(* Properties of the statistics (checked under Spec).                      *)
(***************************************************************************)
RECURSIVE C11_SumOfSuccessPrices(_, _)
\* the sum of the prices of the Success outcomes among the first k
\* outcomes
C11_SumOfSuccessPrices(results, k) ==
    IF k = 0 THEN Num(0)
    ELSE IF results[k].success
    THEN NumAdd(C11_SumOfSuccessPrices(results, k - 1),
                results[k].data.price)
    ELSE C11_SumOfSuccessPrices(results, k - 1)

\* C11: in every result of getCryptoPrice with a Success, averagePrice is
\* the sum of the prices of all Success outcomes divided by their number,
\* bestPrice is one of these prices with none below it and worstPrice one
\* of these prices with none above it: no Success price is left out.
C11_StatisticsOverAllSuccesses ==
    \A a \in 1..Len(aggs) :
        aggs[a].state = "fulfilled" =>
            LET r == aggs[a].value
                succeeded == {i \in 1..Len(r.results) : r.results[i].success}
                priceAt(i) == r.results[i].data.price
                below(p, q) == NumLeq(p, q) /\ p # q
            IN  succeeded # {} =>
                  /\ r.averagePrice =
                        NumDivInt(C11_SumOfSuccessPrices(r.results,
                                                         Len(r.results)),
                                  Cardinality(succeeded))
                  /\ \E i \in succeeded :
                        /\ r.bestPrice = priceAt(i)
                        /\ \A j \in succeeded : ~below(priceAt(j), priceAt(i))
                  /\ \E i \in succeeded :
                        /\ r.worstPrice = priceAt(i)
                        /\ \A j \in succeeded : ~below(priceAt(i), priceAt(j))

\* two exchanges succeeded with the prices 1 and 3: the mean is 2
C11_Witness ==
    /\ aggs # << >>
    /\ aggs[1].state = "fulfilled"
    /\ aggs[1].value.successfulExchanges = 2
    /\ aggs[1].value.averagePrice = Num(2)
    /\ aggs[1].value.bestPrice = Num(1)
    /\ aggs[1].value.worstPrice = Num(3)

(***************************************************************************)
(* Properties of the chain an adapter works on (checked under SpecAdapter).*)
(***************************************************************************)
\* C12: in a getPrice call as getCryptoPrice makes it (the chain handed
\* over is the request's chain or the default one; Jupiter is built for and
\* called with 101, PancakeSwap with 56), the chain-aware adapters resolve
\* the token address and fetch the quote or pool on the chain handed over.
C12_AdaptersOperateOnRequestChain ==
    (/\ call.status # "idle"
     /\ call.adapter \in {"uniswap", "0x", "1inch", "pancakeswap", "curve"}
     /\ Truthy(call.chainId)
     /\ call.adapter = "pancakeswap" =>
            /\ call.chainId = Num(PancakeSwapChainId)
            /\ call.configChainId = PancakeSwapChainId)
    => /\ call.lookupChain = call.chainId
       /\ call.quoteChain = call.chainId

\* C13: a DEX adapter whose effective chain (the chainId argument, else the
\* chain of its constructor) is not supported by its protocol returns a
\* Failure: it neither returns a Success nor raises.
C13_UnsupportedChainIsFailure ==
    (/\ call.status = "settled"
     /\ call.adapter \in {"jupiter", "uniswap", "0x", "1inch", "pancakeswap",
                          "curve"}
     /\ TargetChainId(call.chainId, call.configChainId).num
            \notin SupportedChains(call.adapter))
    => /\ call.outcome.kind = "return"
       /\ ~call.outcome.value.success

(***************************************************************************)
(* Properties of what the adapters return (checked under SpecAdapter).     *)
(***************************************************************************)
\* C14: a CEX adapter (Binance, OKX, Coinbase, Kraken) whose request is
\* answered with a status outside 2xx, or with a body that lacks the member
\* the price is read from, returns a Failure that carries an error text: it
\* neither returns a Success nor raises.
C14_CexFailureOnBadResponse ==
    (/\ call.status = "settled"
     /\ call.adapter \in {"binance", "okx", "coinbase", "kraken"}
     /\ \/ call.world.kind = "error" /\ call.world.status >= 300
        \/ /\ call.world.kind = "ok"
           /\ PriceField(call.adapter, call.world.data) = Undef)
    => /\ call.outcome.kind = "return"
       /\ ~call.outcome.value.success
       /\ IsString(call.outcome.value.error)
       /\ call.outcome.value.error.s # ""

\* C15: every Success an adapter returns carries a price that is a finite
\* number greater than zero.
C15_SuccessPriceFiniteAndPositive ==
    (/\ call.status = "settled"
     /\ call.outcome.kind = "return"
     /\ call.outcome.value.success)
    => LET price == call.outcome.value.data.price
       IN  /\ IsNumber(price)
           /\ ~price.nan
           /\ price.den # 0
           /\ price.num > 0

(***************************************************************************)
(* Properties of the rendered text (checked under Spec).                   *)
(***************************************************************************)
\* C16: the text of a get_crypto_price result has exactly one line for
\* every outcome of the aggregate result, in the CEX section or in the DEX
\* section: no outcome is left out and none is rendered twice.
C16_EveryOutcomeRenderedOnce ==
    (/\ pc = "done"
     /\ request.tool = "get_crypto_price"
     /\ response.kind = "result"
     /\ ~response.result.isError)
    => LET lines == response.result.text.cex \o response.result.text.dex
           results == aggs[1].value.results
       IN  \A i \in 1..Len(results) :
               Cardinality({k \in 1..Len(lines) :
                               lines[k].exchange = results[i].exchange}) = 1

\* C17: the text of a get_crypto_price result carries the warning line
\* exactly when the aggregate result counts no successful exchange.
C17_WarningIffNoSuccess ==
    (/\ pc = "done"
     /\ request.tool = "get_crypto_price"
     /\ response.kind = "result"
     /\ ~response.result.isError)
    => (response.result.text.warning
            <=> aggs[1].value.successfulExchanges = 0)

\* one exchange succeeded with a price that is no number: there is no
\* statistics block to print, and no warning either
C17_Witness ==
    /\ pc = "done"
    /\ request.tool = "get_crypto_price"
    /\ response.kind = "result"
    /\ ~response.result.isError
    /\ aggs[1].value.successfulExchanges = 1
    /\ response.result.text.statistics = Undef
    /\ ~response.result.text.warning

\* C18: the exchanges named in the answer of list_supported_exchanges are
\* the keys of the aggregator's registry, and the total it reports is the
\* number of exchanges it names.
C18_ListedExchangesAreRegistry ==
    (/\ pc = "done"
     /\ request.tool = "list_supported_exchanges"
     /\ response.kind = "result")
    => LET text == response.result.text
       IN  /\ {ToLowerCase(text.names[k]) : k \in 1..Len(text.names)}
                = {getSupportedExchanges[k] :
                      k \in 1..Len(getSupportedExchanges)}
           /\ text.total = Len(text.names)

(***************************************************************************)
(* Properties of the token address service (checked under SpecResolver).   *)
(***************************************************************************)
\* C19: when getTokenAddress selects a record, it is one of the records the
\* asked sources returned; no other record's address (compared without
\* case) has more records behind it, and among the records of equally
\* supported addresses none comes from a source of higher priority.  So two
\* agreeing sources beat one dissenter, wherever it sits.
C19_MostSupportedAddressWins ==
    (/\ call.status = "settled"
     /\ call.outcome.kind = "return"
     /\ call.outcome.value.success)
    => LET asked == SourcesAsked(call.chainId, call.env)
           got(source) ==
               GetFromSource(source, call.chainId, call.world[source])
           records == {got(asked[k]).value :
                          k \in {j \in 1..Len(asked) :
                                    /\ got(asked[j]).kind = "return"
                                    /\ got(asked[j]).value # JNull}}
           support(r) ==
               Cardinality({q \in records :
                               ToLowerCase(q.address.s)
                                   = ToLowerCase(r.address.s)})
           data == call.outcome.value.data
       IN  /\ data \in records
           /\ \A r \in records :
                \/ support(r) < support(data)
                \/ /\ support(r) = support(data)
                   /\ PriorityIndex(data.source) <= PriorityIndex(r.source)

\* CoinGecko names one address, CoinMarketCap and Moralis agree on another
\* one in two spellings: the record of CoinMarketCap is selected
C19_Witness ==
    /\ call.status = "settled"
    /\ call.adapter = "TokenAddressService"
    /\ call.env.COINMARKETCAP_API_KEY
    /\ call.env.MORALIS_API_KEY
    /\ call.chainId = 137
    /\ call.world.coingecko.kind = "found"
    /\ call.world.coingecko.address = Str("0xOther")
    /\ call.world.coinmarketcap.kind = "found"
    /\ call.world.coinmarketcap.address = Str("0xToken")
    /\ call.world.moralis.kind = "found"
    /\ call.world.moralis.address = Str("0xtoken")
    /\ call.outcome.value.success
    /\ call.outcome.value.data
           = TokenAddressInfo(Str("0xToken"), 137, "coinmarketcap",
                              Num(DefaultDecimals))

\* C20: when every source getTokenAddress asks raises or finds no match, the
\* call returns a result with success = false and no data, and does not
\* raise; this holds for every symbol and every chain id, also one that no
\* source has a mapping for.
C20_NotFoundWhenEverySourceFails ==
    (/\ call.status = "settled"
     /\ LET asked == SourcesAsked(call.chainId, call.env)
        IN  \A k \in 1..Len(asked) :
                LET got == GetFromSource(asked[k], call.chainId,
                                         call.world[asked[k]])
                IN  got.kind = "throw" \/ got.value = JNull)
    => /\ call.outcome.kind = "return"
       /\ ~call.outcome.value.success
       /\ call.outcome.value.data = Undef

\* a chain id unknown to every source, with both API keys set: the three
\* sources asked raise, Etherscan is not asked, and the call returns NotFound
C20_Witness ==
    /\ call.status = "settled"
    /\ call.adapter = "TokenAddressService"
    /\ call.chainId = 999
    /\ call.env.COINMARKETCAP_API_KEY
    /\ call.env.MORALIS_API_KEY
    /\ call.world.coingecko.kind = "found"
    /\ call.outcome.kind = "return"
    /\ ~call.outcome.value.success
    /\ call.outcome.value.error
           = Str("No token address found for BTC on chain 999")
    /\ call.outcome.value.sources = << >>

(***************************************************************************)
(* Termination of getCryptoPrice over a network with silent providers      *)
(* (checked under SpecNetwork).                                            *)
(***************************************************************************)
\* the event loop has a step to take: code that is ready to run, an answer
\* or the error of a passed time limit to deliver
EventLoopReady ==
    \/ pc = "dispatching"
    \/ MicrotasksPending
    \/ pc = "awaiting" /\ \E i \in 1..NumExchanges : Deliverable(i)

\* a request is outstanding that only the JSON-RPC library can end
LibraryMayGiveUp ==
    /\ pc = "awaiting"
    /\ \E i \in 1..NumExchanges :
        HasOutstanding(i) /\ Outstanding(i).via = "ethers"

\* C21: every get_crypto_price call that was made returns: each outbound
\* request of each adapter is ended by a time limit, so a provider that never
\* answers leaves its adapter with a Failure and never the call without a
\* response.  A call that has not returned always has something that will
\* move it on: a step of the event loop, or a read the library may end.
C21_EveryCallReturns ==
    request.tool = "get_crypto_price"
        => pc = "done" \/ EventLoopReady \/ LibraryMayGiveUp

(***************************************************************************)
(* Concurrent aggregations (checked under SpecMulti).                      *)
(***************************************************************************)
\* the results of aggregation a run alone with the responses its own
\* adapter calls got
C22_ResultsAlone(a) ==
    [i \in 1..NumExchanges |->
        WrapExchangeCall(exchangeNames[i], aggs[a].prom[i].did).value]

\* C22: aggregations that run concurrently share no mutable state: whatever
\* the order in which the adapter calls of all symbols complete, each
\* symbol's aggregation settles as it would when run alone with the same
\* adapter responses.
C22_AggregationsIndependent ==
    \A a \in 1..Len(aggs) :
        aggs[a].state # "running" =>
            IF IsString(aggs[a].symbol)
            THEN /\ aggs[a].state = "fulfilled"
                 /\ aggs[a].value =
                        BuildResult(aggs[a].symbol, C22_ResultsAlone(a))
            ELSE /\ aggs[a].state = "rejected"
                 /\ aggs[a].error = NullSymbolMessage

\* two symbols whose adapter calls completed interleaved, the second
\* symbol's aggregation finishing with a Success the first one's lacks
C22_Witness ==
    /\ pc = "done"
    /\ request.tool = "get_multiple_crypto_prices"
    /\ Len(aggs) = 2
    /\ aggs[1].state = "fulfilled"
    /\ aggs[2].state = "fulfilled"
    /\ aggs[1].value.successfulExchanges = 0
    /\ aggs[2].value.successfulExchanges = 1
    /\ \E i, j, k \in 1..NumExchanges :
          /\ aggs[1].prom[i].seq < aggs[2].prom[j].seq
          /\ aggs[2].prom[j].seq < aggs[1].prom[k].seq

(***************************************************************************)
(* Prices of the pool and quote adapters (checked under SpecAdapter).      *)
(***************************************************************************)
\* the address getTokenAddress of a pool adapter resolves the symbol of
\* the invocation to
C23_TokenAddress ==
    GetTokenAddress(
        ReferenceAddress(
            IF call.adapter = "uniswap" THEN UniswapReferenceTokens
            ELSE PancakeSwapReferenceTokens(call.configChainId),
            ToUpperCase(call.symbol.s)),
        AskService(ToUpperCase(call.symbol.s), call.configChainId,
                   call.world.service))

\* C23: a Success of Uniswap or PancakeSwap carries, with raw the value of
\* (sqrtPriceX96 / 2^96)^2 * 10^(decimals of token0 - decimals of token1)
\* for the pool's own token0 and token1, the price raw when the queried
\* token is token0 of the pool and 1 / raw when it is token1, whatever the
\* decimals of the two tokens.
C23_PoolPriceFromOwnDecimals ==
    (/\ call.status = "settled"
     /\ call.adapter \in {"uniswap", "pancakeswap"}
     /\ call.outcome.kind = "return"
     /\ call.outcome.value.success)
    => LET pool == call.world.poolInfo
           raw == calculatePriceFromSqrtPriceX96(pool.sqrtPriceX96,
                      pool.token0.decimals, pool.token1.decimals)
           isToken0 == ToLowerCase(pool.token0.address)
                           = ToLowerCase(C23_TokenAddress.s)
       IN  call.outcome.value.data.price =
               IF isToken0 THEN raw ELSE NumInverse(raw)

\* the amount a quote adapter asks a quote for is a 1 followed by this many
\* zeros: '1000000000000000000' of OneInchExchange, '1000000000' of
\* JupiterExchange
OneInchAmountDecimals == 18
JupiterAmountDecimals == 9

\* the decimals of the amount sold: ethers.parseUnits('1', decimals) of
\* ZeroXExchange, the fixed amounts of the other two
SellAmountDecimals(adapter, world) ==
    CASE adapter = "0x" -> world.tokenInfo.decimals
      [] adapter = "1inch" -> OneInchAmountDecimals
      [] adapter = "jupiter" -> JupiterAmountDecimals

\* decimals a token and the reference asset can have on a chain
TokenDecimals == {6, 8, 9, 18}
ReferenceDecimals == {6, 18}

\* the pairs << decimals of the token, decimals of the reference asset >>
\* the chain of the invocation can have: the ones ZeroXExchange has read,
\* any for the adapters that read none
C24_Decimals ==
    IF call.adapter = "0x"
    THEN {<< call.world.tokenInfo.decimals, call.world.usdcInfo.decimals >>}
    ELSE TokenDecimals \X ReferenceDecimals

\* << amount of the reference asset received, amount of the token sold >>
\* of the quote the adapter has priced
C24_Amounts ==
    CASE call.adapter = "0x" ->
             << NumberOfBigInt(Get(call.world.http.data, "buyAmount")),
                NumberOfBigInt(Get(call.world.http.data, "sellAmount")) >>
      [] call.adapter = "1inch" ->
             << ToNumber(OneInchAmounts(call.world.http.data)[1]),
                ToNumber(OneInchAmounts(call.world.http.data)[2]) >>
      [] call.adapter = "jupiter" ->
             << ToNumber(Get(call.world.data, "outAmount")),
                ToNumber(Get(call.world.data, "inAmount")) >>

\* C24: a Success of 0x, 1inch or Jupiter comes from a quote for one whole
\* token, 10^(decimals of the token) base units, and carries the price
\* (out / 10^(decimals of the reference asset)) / (in / 10^(decimals of
\* the token)), whatever the decimals of the two tokens are.
C24_QuotePriceDecimalAdjusted ==
    (/\ call.status = "settled"
     /\ call.adapter \in {"0x", "1inch", "jupiter"}
     /\ call.outcome.kind = "return"
     /\ call.outcome.value.success)
    => \A d \in C24_Decimals :
           /\ SellAmountDecimals(call.adapter, call.world) = d[1]
           /\ call.outcome.value.data.price =
                  NumDiv(NumDiv(C24_Amounts[1], MathPow10(d[2])),
                         NumDiv(C24_Amounts[2], MathPow10(d[1])))

\* the field pairs of a 1inch quote, in the order of the claim
C25_Pairs ==
    << << "toTokenAmount", "fromTokenAmount" >>,
       << "dstAmount", "srcAmount" >>,
       << "outTokenAmount", "inTokenAmount" >> >>

\* both fields of pair k are present in the quote (with a usable value)
C25_Complete(quote, k) ==
    /\ Truthy(Get(quote, C25_Pairs[k][1]))
    /\ Truthy(Get(quote, C25_Pairs[k][2]))

\* the 1inch invocation has received a quote: the token has an address and
\* the quote request was answered with a body
C25_Quoted ==
    /\ call.status = "settled"
    /\ call.adapter = "1inch"
    /\ IsString(call.symbol)
    /\ Truthy(GetTokenAddress(
                  ReferenceAddress(OneInchReferenceTokens(call.configChainId),
                                   ToUpperCase(call.symbol.s)),
                  AskService(ToUpperCase(call.symbol.s), call.configChainId,
                             call.world.service)))
    /\ call.world.http.kind = "ok"
    /\ Truthy(call.world.http.data)

\* C25: the 1inch adapter prices a quote from the first of the pairs
\* (toTokenAmount, fromTokenAmount), (dstAmount, srcAmount),
\* (outTokenAmount, inTokenAmount) that has both fields, and answers with
\* the Failure 'Invalid quote format ...' exactly when no pair has both.
C25_FirstCompletePairPriced ==
    C25_Quoted
    => LET quote == call.world.http.data
           complete == {k \in 1..3 : C25_Complete(quote, k)}
           result == call.outcome.value
           formatFailure ==
               /\ ~result.success
               /\ \E rest \in {JsonStringify(quote)} :
                      result.error = Str("Invalid quote format received from 1inch. Expected toTokenAmount/fromTokenAmount, dstAmount/srcAmount, or outTokenAmount/inTokenAmount. Received: " \o rest)
       IN  /\ call.outcome.kind = "return"
           /\ formatFailure <=> complete = {}
           /\ complete # {}
              => LET k == CHOOSE j \in complete : \A i \in complete : j <= i
                     price == NumDiv(ToNumber(Get(quote, C25_Pairs[k][1])),
                                     ToNumber(Get(quote, C25_Pairs[k][2])))
                 IN  IF NumLeq(price, Num(0)) THEN ~result.success
                     ELSE /\ result.success
                          /\ result.data.price = price

\* a quote whose first pair lacks a field and whose second and third pairs
\* are complete has been priced from the second pair
C25_Witness ==
    /\ C25_Quoted
    /\ ~C25_Complete(call.world.http.data, 1)
    /\ C25_Complete(call.world.http.data, 2)
    /\ C25_Complete(call.world.http.data, 3)
    /\ Truthy(Get(call.world.http.data, "toTokenAmount"))
    /\ call.outcome.value.success
    /\ call.outcome.value.data.price = Num(3)

\* the source is asked by getTokenAddress and returns a record
C26_ReturnsRecord(source) ==
    /\ CASE source = "coingecko" -> TRUE
         [] source = "coinmarketcap" -> call.env.COINMARKETCAP_API_KEY
         [] source = "moralis" -> call.env.MORALIS_API_KEY
         [] source = "etherscan" -> call.chainId = 1
    /\ LET got == GetFromSource(source, call.chainId, call.world[source])
       IN  got.kind = "return" /\ got.value # JNull

\* C26: whatever the other sources do (raise, find no match, or are left
\* out for want of their API key), the sources of the result are exactly
\* the sources, in priority order, that returned a record, the lookup
\* succeeds when there is one, and the record selected is the vote over the
\* records of exactly these sources.
C26_CascadeNeverAborted ==
    (call.status = "settled" /\ call.adapter = "TokenAddressService")
    => LET sources == SelectSeq(SourcePriority, C26_ReturnsRecord)
           records == [k \in 1..Len(sources) |->
                          GetFromSource(sources[k], call.chainId,
                                        call.world[sources[k]]).value]
       IN  /\ call.outcome.kind = "return"
           /\ call.outcome.value.sources = sources
           /\ call.outcome.value.success <=> sources # << >>
           /\ sources # << >>
              => call.outcome.value.data
                     = verifyAndSelectBestResult(records).value

\* CoinGecko raises, CoinMarketCap has no API key, Moralis finds no match:
\* Etherscan is still asked and its record is the result
C26_Witness ==
    /\ call.status = "settled"
    /\ call.adapter = "TokenAddressService"
    /\ call.chainId = 1
    /\ call.world.coingecko.kind = "error"
    /\ ~call.env.COINMARKETCAP_API_KEY
    /\ call.env.MORALIS_API_KEY
    /\ call.world.moralis.kind = "none"
    /\ call.world.etherscan.kind = "found"
    /\ call.outcome.value.success
    /\ call.outcome.value.sources = << "etherscan" >>
    /\ call.outcome.value.data.source = "etherscan"

\* C27: the record a successful getTokenAddress returns has a decimals
\* member that is an integer number, and that is 18 when the provider of
\* the record's source reported no decimals, whichever of the four sources
\* produced the record.
C27_DecimalsDefinedInteger ==
    (/\ call.status = "settled"
     /\ call.adapter = "TokenAddressService"
     /\ call.outcome.kind = "return"
     /\ call.outcome.value.success)
    => LET data == call.outcome.value.data
           reported == call.world[data.source].decimals
       IN  /\ IsNumber(data.decimals)
           /\ ~data.decimals.nan
           /\ data.decimals.den = 1
           /\ Nullish(reported) => data.decimals = Num(DefaultDecimals)

(***************************************************************************)
(* The statistics of the rendered text (checked under Spec).               *)
(***************************************************************************)
\* C28: the text of a price result carries the average, best and worst
\* price exactly when the aggregate result counts at least one successful
\* exchange; the formatter of get_multiple_crypto_prices, which prints
\* 'No successful price data' in place of the statistics, prints it only
\* for a symbol without successful exchange, and numbers its blocks in
\* input order.
C28_StatisticsIffSuccess ==
    (/\ pc = "done"
     /\ response.kind = "result"
     /\ ~response.result.isError)
    => CASE request.tool = "get_crypto_price" ->
                response.result.text.statistics # Undef
                    <=> aggs[1].value.successfulExchanges > 0
         [] request.tool = "get_multiple_crypto_prices" ->
                \A k \in 1..Len(response.result.text.blocks) :
                    LET block == response.result.text.blocks[k]
                    IN  /\ block.number = k
                        /\ block.statistics # Undef
                               <=> aggs[k].value.successfulExchanges > 0
                        /\ block.noData
                               <=> aggs[k].value.successfulExchanges = 0
         [] OTHER -> TRUE

(***************************************************************************)
(* Properties of the fallback token service (checked under SpecFallback).  *)
(***************************************************************************)
\* the sources of the cascade by position: 0 CoinGecko, 1..n the token
\* lists of the chain, n + 1 the table of common tokens
C30_SourceName(j) ==
    IF j = 0 THEN "coingecko"
    ELSE IF j <= Len(TokenLists(call.chainId))
    THEN "tokenlist-" \o TokenLists(call.chainId)[j]
    ELSE "common"

\* source j has a record for the symbol
C30_Matches(j) ==
    IF j = 0
    THEN /\ call.chainId \in FallbackMappedChains
         /\ call.world.coingecko.kind = "found"
    ELSE IF j <= Len(TokenLists(call.chainId))
    THEN call.world.lists[j].kind = "found"
    ELSE ToUpperCase(call.symbol.s) \in DOMAIN CommonTokens(call.chainId)

\* C30: getTokenAddress of the fallback token service goes through
\* CoinGecko, the token lists of the chain in their listed order and the
\* table of common tokens; it returns the record of the first of them that
\* has one and asks none after it; a source that fails is passed over like
\* one without a match; with no match anywhere it returns null; it never
\* raises.
C30_FirstMatchWins ==
    (call.status = "settled" /\ call.adapter = "FallbackTokenService")
    => LET n == Len(TokenLists(call.chainId))
           matching == {j \in 0..(n + 1) : C30_Matches(j)}
           last == IF matching = {} THEN n + 1
                   ELSE CHOOSE j \in matching : \A i \in matching : j <= i
           first == IF call.chainId \in FallbackMappedChains THEN 0 ELSE 1
       IN  /\ call.outcome.kind = "return"
           /\ call.asked
                  = [k \in 1..(last - first + 1) |->
                        C30_SourceName(first + k - 1)]
           /\ IF matching = {} THEN call.outcome.value = JNull
              ELSE /\ call.outcome.value # JNull
                   /\ call.outcome.value.source = C30_SourceName(last)
                   /\ call.outcome.value.chainId = call.chainId

\* CoinGecko and the first token list fail, the second list has no match,
\* the third list has the token: its record is returned and the table of
\* common tokens, which has the symbol too, is not consulted
C30_Witness ==
    /\ call.status = "settled"
    /\ call.adapter = "FallbackTokenService"
    /\ call.chainId = 1
    /\ call.symbol = Str("usdc")
    /\ call.world.coingecko.kind = "error"
    /\ call.world.lists[1].kind = "error"
    /\ call.world.lists[2].kind = "none"
    /\ call.world.lists[3].kind = "found"
    /\ call.outcome.value.source = "tokenlist-1inch.json"
    /\ call.asked = << "coingecko", "tokenlist-",
                       "tokenlist-compound.tokenlist.json",
                       "tokenlist-1inch.json" >>

(***************************************************************************)
(* Decimals of the resolved records (checked under SpecResolver; the part  *)
(* on the fallback token service also under SpecFallback).                 *)
(***************************************************************************)
\* the decimals the provider reported for the record a settled call
\* returned; CoinMarketCap and the table of common tokens report none
C29_Reported ==
    IF call.adapter = "TokenAddressService"
    THEN IF call.outcome.value.data.source = "coinmarketcap" THEN Undef
         ELSE call.world[call.outcome.value.data.source].decimals
    ELSE IF call.outcome.value.source = "coingecko"
    THEN call.world.coingecko.decimals
    ELSE IF call.outcome.value.source = "common" THEN Undef
    ELSE call.world.lists[Len(call.asked) - 1].decimals

\* the record a settled call returned, if it returned one
C29_Record ==
    IF call.status # "settled" \/ call.outcome.kind # "return" THEN JNull
    ELSE IF call.adapter = "TokenAddressService"
    THEN IF call.outcome.value.success THEN call.outcome.value.data
         ELSE JNull
    ELSE IF call.adapter = "FallbackTokenService" THEN call.outcome.value
    ELSE JNull

\* C29: when the provider of the selected record reported 0 decimals, the
\* record of the token address service and of the fallback token service
\* has decimals 0: the default of 18 stands in for an absent value only.
C29_ZeroDecimalsPreserved ==
    (C29_Record # JNull /\ C29_Reported = Num(0))
    => C29_Record.decimals = Num(0)

====
